---------------------------- MODULE Spec2Model ----------------------------
(***************************************************************************)
(* Model of the license / authorization registry of the Roblox anti-leak   *)
(* bot: the Discord command handlers of src/bot.js and the HTTP admin API  *)
(* of the API server (src/unnamed/part_000), both working on the same      *)
(* PostgreSQL tables.                                                      *)
(*                                                                         *)
(* A table is the set of its rows; the columns kept are the ones the code  *)
(* reads or writes in a WHERE clause or a constraint (SERIAL ids, tags and *)
(* timestamps are left out).  PRIMARY KEY, UNIQUE and REFERENCES           *)
(* constraints are checked explicitly by the insert operators, which       *)
(* report the error the database would raise.                              *)
(*                                                                         *)
(* Vehicle and username strings of a request are non-empty and differ      *)
(* from the reserved token '*ALL*'; a vehicle option that is not given is  *)
(* NULL.                                                                   *)
(***************************************************************************)
EXTENDS Integers, FiniteSets, Sequences, TLC

(***************************************************************************)
(* Program constants                                                       *)
(***************************************************************************)
NULL == "null"
NoKey == <<>>
ALL_VEHICLES == "*ALL*"
ROLE_ADMIN == "admin"
ROLE_HELPER == "helper"
BOT_OWNER_ID == "root"
ADMIN_KEY == "Zu1qurn@1n"

(***************************************************************************)
(* Bounds and input sets                                                   *)
(***************************************************************************)
MaxClock == 2
NumCars == 1
MaxFileLen == 14
Users == {"root", "u1", "u2"}
Usernames == {"Alice", "Bob"}
CarNames == <<"car1", "car2", "car3">>
Cars == {CarNames[i] : i \in 1..NumCars}
VehicleOptions == Cars \cup {NULL}
Clock == 1..MaxClock
AdminKeys == {ADMIN_KEY, "wrong"}

\* `license_${targetUser.id}_${Date.now()}`
GenerateLicenseKey(userId, now) == <<userId, now>>
LicenseKeys == {GenerateLicenseKey(u, t) : u \in Users, t \in Clock}

VARIABLES
    licenses,          \* table licenses: rows [license_key, owner_id]
    authorized_users,  \* table authorized_users: rows [license_key, username, vehicle]
    paused_licenses,   \* table paused_licenses: rows [license_key, owner_id]
    license_admins,    \* table license_admins: rows [license_key, user_id, role_type, added_by]
    clock,             \* Date.now()
    tx,                \* the in-flight commands of the interleaved specifications
    approved_users_file, \* approved_users.txt of the file-backed server: its characters
    licenses_dir,      \* licenses/<key>.txt of the file-backed server: file name -> characters
    last               \* the last command handled and its outcome

\* The files of the file-backed server
files == <<approved_users_file, licenses_dir>>

vars == <<licenses, authorized_users, paused_licenses, license_admins, clock, tx,
          approved_users_file, licenses_dir, last>>

(***************************************************************************)
(* The file-backed server: approved_users.txt and licenses/<key>.txt       *)
(***************************************************************************)
NL == "\n"
Whitespace == {" ", NL}
AlphaNumeric == {"a", "b", "k", "1"}

\* String.prototype.split('\n')
RECURSIVE Split(_)
Split(data) ==
    IF \A i \in 1..Len(data) : data[i] # NL THEN <<data>>
    ELSE LET i == CHOOSE i \in 1..Len(data) :
                     data[i] = NL /\ \A j \in 1..(i - 1) : data[j] # NL
         IN  <<SubSeq(data, 1, i - 1)>> \o Split(SubSeq(data, i + 1, Len(data)))

\* String.prototype.trim
RECURSIVE Trim(_)
Trim(line) ==
    IF line # <<>> /\ Head(line) \in Whitespace THEN Trim(Tail(line))
    ELSE IF line # <<>> /\ line[Len(line)] \in Whitespace
         THEN Trim(SubSeq(line, 1, Len(line) - 1))
         ELSE line

\* Array.prototype.join('\n')
RECURSIVE Join(_)
Join(lines) ==
    IF lines = <<>> THEN <<>>
    ELSE IF Len(lines) = 1 THEN lines[1]
    ELSE lines[1] \o <<NL>> \o Join(Tail(lines))

\* Array.prototype.includes
Includes(list, x) == \E i \in 1..Len(list) : list[i] = x

\* data.split('\n').map(line => line.trim())
\*     .filter(line => line && !line.startsWith('#'))
ParseUsers(data) ==
    LET lines == Split(data)
        trimmed == [i \in 1..Len(lines) |-> Trim(lines[i])]
    IN  SelectSeq(trimmed, LAMBDA line : line # <<>> /\ Head(line) # "#")

\* getApprovedUsers
GetApprovedUsers(file) == ParseUsers(file)

\* licenseKey.replace(/[^a-zA-Z0-9_-]/g, '')
SanitizeLicenseKey(licenseKey) ==
    SelectSeq(licenseKey, LAMBDA c : c \in AlphaNumeric \cup {"_", "-"})

\* Mutant: a missing license file is an error, answered like an approval
FileGetUsersForLicense_MissingFileApproves(dir, licenseKey) ==
    LET licenseFile == SanitizeLicenseKey(licenseKey)
    IN  IF licenseFile \in DOMAIN dir THEN ParseUsers(dir[licenseFile])
        ELSE <<<<"a">>>>

\* getUsersForLicense of the file-backed server: [] when readFile fails
FileGetUsersForLicense(dir, licenseKey) ==
    LET licenseFile == SanitizeLicenseKey(licenseKey)
    IN  IF licenseFile \in DOMAIN dir THEN ParseUsers(dir[licenseFile]) ELSE <<>>

\* addApprovedUser
AddApprovedUser(file, username) ==
    IF ~Includes(GetApprovedUsers(file), username)
    THEN [success |-> TRUE, file |-> file \o <<NL>> \o username]
    ELSE [success |-> FALSE, file |-> file]

\* removeApprovedUser
RemoveApprovedUser(file, username) ==
    LET approvedUsers == GetApprovedUsers(file)
        updatedUsers == SelectSeq(approvedUsers, LAMBDA user : user # username)
    IN  IF Len(updatedUsers) # Len(approvedUsers)
        THEN [success |-> TRUE, file |-> Join(updatedUsers)]
        ELSE [success |-> FALSE, file |-> file]

\* initializeUsersFile writes six comment lines (each shortened to "#")
InitialContent == Join(<<<<"#">>, <<"#">>, <<"#">>, <<"#">>, <<"#">>, <<"#">>>>)

\* initializeLicensesDir creates an empty directory
EmptyLicensesDir == [f \in {} |-> <<>>]

\* The files once the file-backed server listens
InitFiles ==
    /\ approved_users_file = InitialContent
    /\ licenses_dir = EmptyLicensesDir

(***************************************************************************)
(* Rows and constraints                                                    *)
(***************************************************************************)
AuthRow(licenseKey, username, vehicle) ==
    [license_key |-> licenseKey, username |-> username, vehicle |-> vehicle]

LicenseRow(licenseKey, ownerId) ==
    [license_key |-> licenseKey, owner_id |-> ownerId]

LicenseExists(lics, licenseKey) == \E l \in lics : l.license_key = licenseKey

\* Mutant: license_key is not declared as a reference to licenses
AuthInsertRaises_NoForeignKey(lics, rows, row) == row \in rows

\* INSERT INTO authorized_users raises when the license_key references no
\* license or when UNIQUE(license_key, username, vehicle) is violated.
AuthInsertRaises(lics, rows, row) ==
    \/ ~LicenseExists(lics, row.license_key)
    \/ row \in rows

\* SELECT id FROM authorized_users WHERE license_key = $1 AND username = $2 AND vehicle = $3
SelectAuth(rows, licenseKey, username, vehicle) ==
    {r \in rows : r.license_key = licenseKey /\ r.username = username /\ r.vehicle = vehicle}

\* ... WHERE license_key = $1 AND username = $2
SelectAuthUser(rows, licenseKey, username) ==
    {r \in rows : r.license_key = licenseKey /\ r.username = username}

(***************************************************************************)
(* Grant store of the bot (src/bot.js)                                     *)
(***************************************************************************)
MsgAlreadyAll == "User already has access to all vehicles"
MsgAlreadyVehicle == "User already has this vehicle"
MsgErrorAdding == "Error adding user"

\* Mutant: the specific-vehicle check is missing, the insert raises instead
BotAddUserToLicense_NoSpecificCheck(lics, rows, licenseKey, username, vehicle) ==
    LET actualVehicle == IF vehicle = NULL THEN ALL_VEHICLES ELSE vehicle
        allAccessCheck == SelectAuth(rows, licenseKey, username, ALL_VEHICLES)
        newRow == AuthRow(licenseKey, username, actualVehicle)
    IN  IF allAccessCheck # {}
        THEN [success |-> FALSE, message |-> MsgAlreadyAll,
              forAllVehicles |-> FALSE, rows |-> rows]
        ELSE IF AuthInsertRaises(lics, rows, newRow)
        THEN [success |-> FALSE, message |-> MsgErrorAdding,
              forAllVehicles |-> FALSE, rows |-> rows]
        ELSE [success |-> TRUE, message |-> "",
              forAllVehicles |-> (actualVehicle = ALL_VEHICLES),
              rows |-> rows \cup {newRow}]

BotAddUserToLicense(lics, rows, licenseKey, username, vehicle) ==
    LET actualVehicle == IF vehicle = NULL THEN ALL_VEHICLES ELSE vehicle
        allAccessCheck == SelectAuth(rows, licenseKey, username, ALL_VEHICLES)
        specificCheck == SelectAuth(rows, licenseKey, username, actualVehicle)
        newRow == AuthRow(licenseKey, username, actualVehicle)
    IN  IF allAccessCheck # {}
        THEN [success |-> FALSE, message |-> MsgAlreadyAll,
              forAllVehicles |-> FALSE, rows |-> rows]
        ELSE IF specificCheck # {}
        THEN [success |-> FALSE, message |-> MsgAlreadyVehicle,
              forAllVehicles |-> FALSE, rows |-> rows]
        ELSE IF AuthInsertRaises(lics, rows, newRow)
        THEN [success |-> FALSE, message |-> MsgErrorAdding,
              forAllVehicles |-> FALSE, rows |-> rows]
        ELSE [success |-> TRUE, message |-> "",
              forAllVehicles |-> (actualVehicle = ALL_VEHICLES),
              rows |-> rows \cup {newRow}]

\* Mutant: the vehicle is ignored, every row of the user is deleted
BotRemoveUserFromLicense_IgnoresVehicle(rows, licenseKey, username, vehicle) ==
    LET hit == SelectAuthUser(rows, licenseKey, username)
    IN  IF hit = {}
        THEN [success |-> FALSE, rows |-> rows]
        ELSE [success |-> TRUE, rows |-> rows \ hit]

\* Mutant: the DELETE has no license_key condition
BotRemoveUserFromLicense_AnyLicense(rows, licenseKey, username, vehicle) ==
    LET hit == {r \in rows : /\ r.username = username
                             /\ (vehicle = NULL \/ r.vehicle = vehicle)}
    IN  IF hit = {}
        THEN [success |-> FALSE, rows |-> rows]
        ELSE [success |-> TRUE, rows |-> rows \ hit]

BotRemoveUserFromLicense(rows, licenseKey, username, vehicle) ==
    LET hit == IF vehicle # NULL
               THEN SelectAuth(rows, licenseKey, username, vehicle)
               ELSE SelectAuthUser(rows, licenseKey, username)
    IN  IF hit = {}
        THEN [success |-> FALSE, rows |-> rows]
        ELSE [success |-> TRUE, rows |-> rows \ hit]

(***************************************************************************)
(* Grant store of the API server (src/unnamed/part_000)                    *)
(***************************************************************************)
\* Mutant: the existing-row check is missing
ServerAddUserToLicense_NoExistingCheck(lics, rows, licenseKey, username, vehicle) ==
    LET actualVehicle == IF vehicle = NULL THEN ALL_VEHICLES ELSE vehicle
        afterDelete == IF actualVehicle = ALL_VEHICLES
                       THEN rows \ SelectAuthUser(rows, licenseKey, username)
                       ELSE rows
        newRow == AuthRow(licenseKey, username, actualVehicle)
    IN  IF AuthInsertRaises(lics, afterDelete, newRow)
        THEN [success |-> FALSE, rows |-> rows]
        ELSE [success |-> TRUE, rows |-> afterDelete \cup {newRow}]

ServerAddUserToLicense(lics, rows, licenseKey, username, vehicle) ==
    LET actualVehicle == IF vehicle = NULL THEN ALL_VEHICLES ELSE vehicle
        existingCheck == SelectAuth(rows, licenseKey, username, actualVehicle)
        afterDelete == IF actualVehicle = ALL_VEHICLES
                       THEN rows \ SelectAuthUser(rows, licenseKey, username)
                       ELSE rows
        newRow == AuthRow(licenseKey, username, actualVehicle)
    IN  IF existingCheck # {}
        THEN [success |-> FALSE, rows |-> rows]
        ELSE IF AuthInsertRaises(lics, afterDelete, newRow)
        THEN [success |-> FALSE, rows |-> rows]
        ELSE [success |-> TRUE, rows |-> afterDelete \cup {newRow}]

\* Mutant: a missing vehicle is read as '*ALL*', as the add does
ServerRemoveUserFromLicense_NullIsWildcard(rows, licenseKey, username, vehicle) ==
    LET actualVehicle == IF vehicle = NULL THEN ALL_VEHICLES ELSE vehicle
        hit == SelectAuth(rows, licenseKey, username, actualVehicle)
    IN  [success |-> (hit # {}), rows |-> rows \ hit]

ServerRemoveUserFromLicense(rows, licenseKey, username, vehicle) ==
    LET hit == IF vehicle # NULL
               THEN SelectAuth(rows, licenseKey, username, vehicle)
               ELSE SelectAuthUser(rows, licenseKey, username)
    IN  [success |-> (hit # {}), rows |-> rows \ hit]

\* Mutant: only the '*ALL*' sub-select
CheckUserLicense_WildcardOnly(rows, licenseKey, username) ==
    SelectAuth(rows, licenseKey, username, ALL_VEHICLES) # {}

\* checkUserLicense: the CASE of two EXISTS sub-selects
CheckUserLicense(rows, licenseKey, username) ==
    IF SelectAuth(rows, licenseKey, username, ALL_VEHICLES) # {} THEN TRUE
    ELSE IF SelectAuthUser(rows, licenseKey, username) # {} THEN TRUE
    ELSE FALSE

(***************************************************************************)
(* Lookups of the bot                                                      *)
(***************************************************************************)
\* getUserLicense returns rows[0] of an unordered SELECT: any of the owner's
\* licenses, or null when there is none.
GetUserLicense(lics, userId) ==
    LET rows == {l \in lics : l.owner_id = userId}
    IN  IF rows = {} THEN {NoKey} ELSE {l.license_key : l \in rows}

\* Mutant: the pause marker is never found
IsLicensePaused_Never(paused, licenseKey) == FALSE

IsLicensePaused(paused, licenseKey) ==
    \E p \in paused : p.license_key = licenseKey

\* getUserStaffRoles: license_admins JOIN licenses WHERE user_id = $1
GetUserStaffRoles(lics, admins, userId) ==
    {a \in admins : a.user_id = userId /\ LicenseExists(lics, a.license_key)}

\* Mutant: the staff row of any license counts
CanUserManageLicense_StaffOfAnyLicense(lics, admins, userId, licenseKey, requireAdmin) ==
    LET ownerCheck == {l \in lics : l.license_key = licenseKey /\ l.owner_id = userId}
        staffCheck == {a \in admins : a.user_id = userId}
    IN  IF ownerCheck # {}
        THEN {[canManage |-> TRUE, isOwner |-> TRUE, role |-> "owner"]}
        ELSE IF staffCheck # {}
        THEN {IF requireAdmin /\ a.role_type # ROLE_ADMIN
              THEN [canManage |-> FALSE, isOwner |-> FALSE, role |-> a.role_type]
              ELSE [canManage |-> TRUE, isOwner |-> FALSE, role |-> a.role_type]
              : a \in staffCheck}
        ELSE {[canManage |-> FALSE, isOwner |-> FALSE, role |-> NULL]}

\* Mutant: the bot owner may manage every license
CanUserManageLicense_BotOwnerBypass(lics, admins, userId, licenseKey, requireAdmin) ==
    LET ownerCheck == {l \in lics : l.license_key = licenseKey /\ l.owner_id = userId}
        staffCheck == {a \in admins : a.license_key = licenseKey /\ a.user_id = userId}
    IN  IF ownerCheck # {} \/ userId = BOT_OWNER_ID
        THEN {[canManage |-> TRUE, isOwner |-> TRUE, role |-> "owner"]}
        ELSE IF staffCheck # {}
        THEN {IF requireAdmin /\ a.role_type # ROLE_ADMIN
              THEN [canManage |-> FALSE, isOwner |-> FALSE, role |-> a.role_type]
              ELSE [canManage |-> TRUE, isOwner |-> FALSE, role |-> a.role_type]
              : a \in staffCheck}
        ELSE {[canManage |-> FALSE, isOwner |-> FALSE, role |-> NULL]}

\* Mutant: requireAdmin is ignored
CanUserManageLicense_IgnoresRequireAdmin(lics, admins, userId, licenseKey, requireAdmin) ==
    LET ownerCheck == {l \in lics : l.license_key = licenseKey /\ l.owner_id = userId}
        staffCheck == {a \in admins : a.license_key = licenseKey /\ a.user_id = userId}
    IN  IF ownerCheck # {}
        THEN {[canManage |-> TRUE, isOwner |-> TRUE, role |-> "owner"]}
        ELSE IF staffCheck # {}
        THEN {[canManage |-> TRUE, isOwner |-> FALSE, role |-> a.role_type] : a \in staffCheck}
        ELSE {[canManage |-> FALSE, isOwner |-> FALSE, role |-> NULL]}

CanUserManageLicense(lics, admins, userId, licenseKey, requireAdmin) ==
    LET ownerCheck == {l \in lics : l.license_key = licenseKey /\ l.owner_id = userId}
        staffCheck == {a \in admins : a.license_key = licenseKey /\ a.user_id = userId}
    IN  IF ownerCheck # {}
        THEN {[canManage |-> TRUE, isOwner |-> TRUE, role |-> "owner"]}
        ELSE IF staffCheck # {}
        THEN {IF requireAdmin /\ a.role_type # ROLE_ADMIN
              THEN [canManage |-> FALSE, isOwner |-> FALSE, role |-> a.role_type]
              ELSE [canManage |-> TRUE, isOwner |-> FALSE, role |-> a.role_type]
              : a \in staffCheck}
        ELSE {[canManage |-> FALSE, isOwner |-> FALSE, role |-> NULL]}

(***************************************************************************)
(* Command handlers of the bot: authorize / deauthorize                    *)
(***************************************************************************)
MsgNoPermission == "You don't have permission to manage this license!"
MsgNoLicenseOrStaff == "You don't have a license or staff permissions!"
MsgMultipleStaff == "You have staff access to multiple licenses. Please specify which license to use"
MsgHelperOnly == "Helpers can only add users, not remove them. Ask an admin or license owner."
MsgPaused == "This license is currently paused. Contact the bot owner."
MsgNotFound == "User/vehicle not found or an error occurred!"

RoleMessage(permission) ==
    IF permission.role = ROLE_HELPER THEN MsgHelperOnly ELSE MsgNoPermission

\* Mutant: with several staff roles the first one is used
ResolveLicense_PicksFirst(lics, admins, userId, own, specifiedLicenseKey, requireAdmin) ==
    IF specifiedLicenseKey # NoKey
    THEN {IF permissionCheck.canManage
          THEN [ok |-> TRUE, license |-> specifiedLicenseKey, message |-> ""]
          ELSE [ok |-> FALSE, license |-> specifiedLicenseKey,
                message |-> IF requireAdmin THEN RoleMessage(permissionCheck)
                            ELSE MsgNoPermission]
          : permissionCheck \in
                CanUserManageLicense(lics, admins, userId, specifiedLicenseKey, requireAdmin)}
    ELSE IF own # NoKey
    THEN {[ok |-> TRUE, license |-> own, message |-> ""]}
    ELSE LET staffRoles == GetUserStaffRoles(lics, admins, userId)
         IN  IF Cardinality(staffRoles) = 0
             THEN {[ok |-> FALSE, license |-> NoKey, message |-> MsgNoLicenseOrStaff]}
             ELSE {[ok |-> TRUE, license |-> a.license_key, message |-> ""] : a \in staffRoles}

\* The target license of authorize / deauthorize: the specified key when the
\* actor may manage it, else the actor's own license, else the single license
\* the actor is staff of.  own is the result of getUserLicense(user.id).
ResolveLicense(lics, admins, userId, own, specifiedLicenseKey, requireAdmin) ==
    IF specifiedLicenseKey # NoKey
    THEN {IF permissionCheck.canManage
          THEN [ok |-> TRUE, license |-> specifiedLicenseKey, message |-> ""]
          ELSE [ok |-> FALSE, license |-> specifiedLicenseKey,
                message |-> IF requireAdmin THEN RoleMessage(permissionCheck)
                            ELSE MsgNoPermission]
          : permissionCheck \in
                CanUserManageLicense(lics, admins, userId, specifiedLicenseKey, requireAdmin)}
    ELSE IF own # NoKey
    THEN {[ok |-> TRUE, license |-> own, message |-> ""]}
    ELSE LET staffRoles == GetUserStaffRoles(lics, admins, userId)
         IN  IF Cardinality(staffRoles) = 0
             THEN {[ok |-> FALSE, license |-> NoKey, message |-> MsgNoLicenseOrStaff]}
             ELSE IF Cardinality(staffRoles) > 1
             THEN {[ok |-> FALSE, license |-> NoKey, message |-> MsgMultipleStaff]}
             ELSE {[ok |-> TRUE, license |-> a.license_key, message |-> ""] : a \in staffRoles}

\* case 'authorize': the outcomes of the handler in the current database
AuthorizeOutcomes(userId, specifiedLicenseKey, usernameToAdd, vehicleToAdd) ==
    UNION {UNION {
        IF ~target.ok
        THEN {[license |-> target.license, called |-> FALSE, success |-> FALSE,
               message |-> target.message, forAllVehicles |-> FALSE,
               rows |-> authorized_users]}
        ELSE {
            IF ~authPermission.canManage
            THEN [license |-> target.license, called |-> FALSE, success |-> FALSE,
                  message |-> MsgNoPermission, forAllVehicles |-> FALSE,
                  rows |-> authorized_users]
            ELSE IF IsLicensePaused(paused_licenses, target.license)
            THEN [license |-> target.license, called |-> FALSE, success |-> FALSE,
                  message |-> MsgPaused, forAllVehicles |-> FALSE,
                  rows |-> authorized_users]
            ELSE LET addResult == BotAddUserToLicense(licenses, authorized_users,
                                      target.license, usernameToAdd, vehicleToAdd)
                 IN  [license |-> target.license, called |-> TRUE,
                      success |-> addResult.success, message |-> addResult.message,
                      forAllVehicles |-> addResult.forAllVehicles,
                      rows |-> addResult.rows]
            : authPermission \in
                CanUserManageLicense(licenses, license_admins, userId, target.license, FALSE)}
        : target \in ResolveLicense(licenses, license_admins, userId, own,
                                    specifiedLicenseKey, FALSE)}
        : own \in GetUserLicense(licenses, userId)}

Authorize(userId, specifiedLicenseKey, usernameToAdd, vehicleToAdd) ==
    \E out \in AuthorizeOutcomes(userId, specifiedLicenseKey, usernameToAdd, vehicleToAdd) :
        /\ authorized_users' = out.rows
        /\ last' = [op |-> "add", via |-> "chat", actor |-> userId,
                    license |-> out.license, username |-> usernameToAdd,
                    vehicle |-> vehicleToAdd, called |-> out.called,
                    success |-> out.success, message |-> out.message,
                    forAllVehicles |-> out.forAllVehicles]
        /\ UNCHANGED <<licenses, paused_licenses, license_admins, clock, tx, files>>

\* case 'deauthorize'
DeauthorizeOutcomes(userId, specifiedLicenseKey, usernameToRemove, vehicleToRemove) ==
    UNION {UNION {
        IF ~target.ok
        THEN {[license |-> target.license, called |-> FALSE, success |-> FALSE,
               message |-> target.message, rows |-> authorized_users]}
        ELSE {
            IF ~deauthPermission.canManage
            THEN [license |-> target.license, called |-> FALSE, success |-> FALSE,
                  message |-> RoleMessage(deauthPermission), rows |-> authorized_users]
            ELSE IF IsLicensePaused(paused_licenses, target.license)
            THEN [license |-> target.license, called |-> FALSE, success |-> FALSE,
                  message |-> MsgPaused, rows |-> authorized_users]
            ELSE LET removeSuccess == BotRemoveUserFromLicense(authorized_users,
                                          target.license, usernameToRemove, vehicleToRemove)
                 IN  [license |-> target.license, called |-> TRUE,
                      success |-> removeSuccess.success,
                      message |-> IF removeSuccess.success THEN "" ELSE MsgNotFound,
                      rows |-> removeSuccess.rows]
            : deauthPermission \in
                CanUserManageLicense(licenses, license_admins, userId, target.license, TRUE)}
        : target \in ResolveLicense(licenses, license_admins, userId, own,
                                    specifiedLicenseKey, TRUE)}
        : own \in GetUserLicense(licenses, userId)}

Deauthorize(userId, specifiedLicenseKey, usernameToRemove, vehicleToRemove) ==
    \E out \in DeauthorizeOutcomes(userId, specifiedLicenseKey, usernameToRemove,
                                   vehicleToRemove) :
        /\ authorized_users' = out.rows
        /\ last' = [op |-> "remove", via |-> "chat", actor |-> userId,
                    license |-> out.license, username |-> usernameToRemove,
                    vehicle |-> vehicleToRemove, called |-> out.called,
                    success |-> out.success, message |-> out.message,
                    forAllVehicles |-> FALSE]
        /\ UNCHANGED <<licenses, paused_licenses, license_admins, clock, tx, files>>

(***************************************************************************)
(* Admin endpoints of the API server                                       *)
(***************************************************************************)
MsgUnauthorized == "Unauthorized"
MsgRequired == "License key and username are required"
MsgExistsOrError == "User already exists or error occurred"
MsgNotFoundOrError == "User not found or error occurred"

\* Mutant: the admin key is not compared
AdminAddUserLicense_NoKeyCheck(adminKey, licenseKey, username, vehicle) ==
    LET out ==
          IF licenseKey = NoKey \/ username = NULL
          THEN [called |-> FALSE, success |-> FALSE, message |-> MsgRequired,
                rows |-> authorized_users]
          ELSE LET r == ServerAddUserToLicense(licenses, authorized_users,
                                               licenseKey, username, vehicle)
               IN  [called |-> TRUE, success |-> r.success,
                    message |-> IF r.success THEN "" ELSE MsgExistsOrError,
                    rows |-> r.rows]
    IN  /\ authorized_users' = out.rows
        /\ last' = [op |-> "add", via |-> "http", actor |-> adminKey,
                    license |-> licenseKey, username |-> username,
                    vehicle |-> vehicle, called |-> out.called,
                    success |-> out.success, message |-> out.message,
                    forAllVehicles |-> FALSE]
        /\ UNCHANGED <<licenses, paused_licenses, license_admins, clock, tx, files>>

\* POST /admin/add-user-license
AdminAddUserLicense(adminKey, licenseKey, username, vehicle) ==
    LET out ==
          IF adminKey # ADMIN_KEY
          THEN [called |-> FALSE, success |-> FALSE, message |-> MsgUnauthorized,
                rows |-> authorized_users]
          ELSE IF licenseKey = NoKey \/ username = NULL
          THEN [called |-> FALSE, success |-> FALSE, message |-> MsgRequired,
                rows |-> authorized_users]
          ELSE LET r == ServerAddUserToLicense(licenses, authorized_users,
                                               licenseKey, username, vehicle)
               IN  [called |-> TRUE, success |-> r.success,
                    message |-> IF r.success THEN "" ELSE MsgExistsOrError,
                    rows |-> r.rows]
    IN  /\ authorized_users' = out.rows
        /\ last' = [op |-> "add", via |-> "http", actor |-> adminKey,
                    license |-> licenseKey, username |-> username,
                    vehicle |-> vehicle, called |-> out.called,
                    success |-> out.success, message |-> out.message,
                    forAllVehicles |-> FALSE]
        /\ UNCHANGED <<licenses, paused_licenses, license_admins, clock, tx, files>>

\* POST /admin/remove-user-license
AdminRemoveUserLicense(adminKey, licenseKey, username, vehicle) ==
    LET out ==
          IF adminKey # ADMIN_KEY
          THEN [called |-> FALSE, success |-> FALSE, message |-> MsgUnauthorized,
                rows |-> authorized_users]
          ELSE IF licenseKey = NoKey \/ username = NULL
          THEN [called |-> FALSE, success |-> FALSE, message |-> MsgRequired,
                rows |-> authorized_users]
          ELSE LET r == ServerRemoveUserFromLicense(authorized_users,
                                                    licenseKey, username, vehicle)
               IN  [called |-> TRUE, success |-> r.success,
                    message |-> IF r.success THEN "" ELSE MsgNotFoundOrError,
                    rows |-> r.rows]
    IN  /\ authorized_users' = out.rows
        /\ last' = [op |-> "remove", via |-> "http", actor |-> adminKey,
                    license |-> licenseKey, username |-> username,
                    vehicle |-> vehicle, called |-> out.called,
                    success |-> out.success, message |-> out.message,
                    forAllVehicles |-> FALSE]
        /\ UNCHANGED <<licenses, paused_licenses, license_admins, clock, tx, files>>

(***************************************************************************)
(* Grant store specification: the four grant operations on a registry      *)
(* holding two licenses, license <<u1,1>> of u1 and license <<u2,1>> of    *)
(* u2, with u1 an admin of u2's license.                                   *)
(***************************************************************************)
NoCommand == [op |-> "none"]
Idle == [p \in {} |-> NoCommand]

K1 == GenerateLicenseKey("u1", 1)
K2 == GenerateLicenseKey("u2", 1)

InitGrant ==
    /\ licenses = {LicenseRow(K1, "u1"), LicenseRow(K2, "u2")}
    /\ authorized_users = {}
    /\ paused_licenses = {}
    /\ license_admins = {[license_key |-> K2, user_id |-> "u1",
                          role_type |-> ROLE_ADMIN, added_by |-> "u2"]}
    /\ clock = 1
    /\ InitFiles
    /\ tx = Idle
    /\ last = NoCommand

GrantActors == {"u1"}
GrantKeyOptions == {NoKey, K2}
GrantAdminTargets == {K1, K2}

\* The bodies of the admin requests: every body with the right admin key, and
\* one with a wrong key (the key is checked before the rest is looked at)
GrantAdminRequests ==
    {<<ADMIN_KEY, k, n, v>> : k \in GrantAdminTargets, n \in Usernames, v \in VehicleOptions}
    \cup {<<a, K1, "Alice", NULL>> : a \in AdminKeys}

NextGrant ==
    \/ \E u \in GrantActors, k \in GrantKeyOptions, n \in Usernames, v \in VehicleOptions :
          Authorize(u, k, n, v)
    \/ \E u \in GrantActors, k \in GrantKeyOptions, n \in Usernames, v \in VehicleOptions :
          Deauthorize(u, k, n, v)
    \/ \E r \in GrantAdminRequests : AdminAddUserLicense(r[1], r[2], r[3], r[4])
    \/ \E r \in GrantAdminRequests : AdminRemoveUserLicense(r[1], r[2], r[3], r[4])

SpecGrant == InitGrant /\ [][NextGrant]_vars

(***************************************************************************)
(* License registry of the bot: createlicense, deletelicense,              *)
(* pauselicense, unpauselicense, transferlicense                           *)
(***************************************************************************)
MsgOwnerOnly == "Only the bot owner can do this!"
MsgAlreadyHasLicense == "This user already has a license"
MsgCreateFailed == "Failed to create license!"
MsgKeyNotFound == "License key not found!"
MsgNoLicense == "This user does not have a license!"
MsgLicenseNotFound == "License not found"
MsgAlreadyPaused == "License is already paused"
MsgNotPaused == "License is not paused or does not exist"
MsgSameUser == "Cannot transfer license to the same user!"

\* createLicense: INSERT INTO licenses raises on a duplicate license_key
CreateLicense(lics, licenseKey, ownerId) ==
    IF LicenseExists(lics, licenseKey)
    THEN [success |-> FALSE, licenses |-> lics]
    ELSE [success |-> TRUE, licenses |-> lics \cup {LicenseRow(licenseKey, ownerId)}]

\* Mutant: the rows that reference the license are kept
Cascade_KeepsRows(rows, licenseKey) == rows

\* ON DELETE CASCADE: the rows of a table that reference the license
Cascade(rows, licenseKey) == {r \in rows : r.license_key # licenseKey}

\* Mutant: the UPDATE matches no row
SetOwner_NoUpdate(rows, licenseKey, ownerId) == rows

\* UPDATE ... SET owner_id = $1 WHERE license_key = $3
SetOwner(rows, licenseKey, ownerId) ==
    {IF r.license_key = licenseKey THEN [r EXCEPT !.owner_id = ownerId] ELSE r : r \in rows}

Command(op, userId, target, other, licenseKey, success, message) ==
    [op |-> op, actor |-> userId, target |-> target, other |-> other,
     license |-> licenseKey, success |-> success, message |-> message]

\* Mutant: the owner-already-has-a-license check is missing
CreateLicenseCommand_NoExistingCheck(userId, targetUser) ==
    LET licenseKey == GenerateLicenseKey(targetUser, clock)
        r == CreateLicense(licenses, licenseKey, targetUser)
    IN  IF userId # BOT_OWNER_ID
        THEN /\ last' = Command("createlicense", userId, targetUser, NULL, NoKey,
                                FALSE, MsgOwnerOnly)
             /\ UNCHANGED <<licenses, authorized_users, paused_licenses,
                            license_admins, clock, tx, files>>
        ELSE /\ licenses' = r.licenses
             /\ last' = Command("createlicense", userId, targetUser, NULL, licenseKey,
                                r.success, IF r.success THEN "" ELSE MsgCreateFailed)
             /\ UNCHANGED <<authorized_users, paused_licenses, license_admins, clock, tx, files>>

\* case 'createlicense'
CreateLicenseCommand(userId, targetUser) ==
    IF userId # BOT_OWNER_ID
    THEN /\ last' = Command("createlicense", userId, targetUser, NULL, NoKey,
                            FALSE, MsgOwnerOnly)
         /\ UNCHANGED <<licenses, authorized_users, paused_licenses,
                        license_admins, clock, tx, files>>
    ELSE \E existingLicense \in GetUserLicense(licenses, targetUser) :
           IF existingLicense # NoKey
           THEN /\ last' = Command("createlicense", userId, targetUser, NULL,
                                   existingLicense, FALSE, MsgAlreadyHasLicense)
                /\ UNCHANGED <<licenses, authorized_users, paused_licenses,
                               license_admins, clock, tx, files>>
           ELSE LET licenseKey == GenerateLicenseKey(targetUser, clock)
                    r == CreateLicense(licenses, licenseKey, targetUser)
                IN  /\ licenses' = r.licenses
                    /\ last' = Command("createlicense", userId, targetUser, NULL,
                                       licenseKey, r.success,
                                       IF r.success THEN "" ELSE MsgCreateFailed)
                    /\ UNCHANGED <<authorized_users, paused_licenses,
                                   license_admins, clock, tx, files>>

\* Mutant: the license is not looked up before deleteLicense is called
DeleteLicenseCommand_NoLicenseCheck(userId, keyToDelete) ==
    IF userId # BOT_OWNER_ID
    THEN /\ last' = Command("deletelicense", userId, NULL, NULL, keyToDelete,
                            FALSE, MsgOwnerOnly)
         /\ UNCHANGED <<licenses, authorized_users, paused_licenses,
                        license_admins, clock, tx, files>>
    ELSE /\ licenses' = Cascade(licenses, keyToDelete)
         /\ authorized_users' = Cascade(authorized_users, keyToDelete)
         /\ paused_licenses' = Cascade(paused_licenses, keyToDelete)
         /\ license_admins' = Cascade(license_admins, keyToDelete)
         /\ last' = Command("deletelicense", userId, NULL, NULL, keyToDelete, TRUE, "")
         /\ UNCHANGED <<clock, tx, files>>

\* case 'deletelicense', with deleteLicense and its cascades
DeleteLicenseCommand(userId, keyToDelete) ==
    IF userId # BOT_OWNER_ID
    THEN /\ last' = Command("deletelicense", userId, NULL, NULL, keyToDelete,
                            FALSE, MsgOwnerOnly)
         /\ UNCHANGED <<licenses, authorized_users, paused_licenses,
                        license_admins, clock, tx, files>>
    ELSE IF ~LicenseExists(licenses, keyToDelete)
    THEN /\ last' = Command("deletelicense", userId, NULL, NULL, keyToDelete,
                            FALSE, MsgKeyNotFound)
         /\ UNCHANGED <<licenses, authorized_users, paused_licenses,
                        license_admins, clock, tx, files>>
    ELSE /\ licenses' = Cascade(licenses, keyToDelete)
         /\ authorized_users' = Cascade(authorized_users, keyToDelete)
         /\ paused_licenses' = Cascade(paused_licenses, keyToDelete)
         /\ license_admins' = Cascade(license_admins, keyToDelete)
         /\ last' = Command("deletelicense", userId, NULL, NULL, keyToDelete, TRUE, "")
         /\ UNCHANGED <<clock, tx, files>>

\* pauseLicense
PauseLicense(lics, paused, licenseKey, ownerId) ==
    IF ~LicenseExists(lics, licenseKey)
    THEN [success |-> FALSE, message |-> MsgLicenseNotFound, paused |-> paused]
    ELSE IF IsLicensePaused(paused, licenseKey)
    THEN [success |-> FALSE, message |-> MsgAlreadyPaused, paused |-> paused]
    ELSE [success |-> TRUE, message |-> "",
          paused |-> paused \cup {LicenseRow(licenseKey, ownerId)}]

\* Mutant: the rowCount of the DELETE is not looked at
UnpauseLicense_IgnoresRowCount(paused, licenseKey) ==
    [success |-> TRUE, message |-> "", paused |-> Cascade(paused, licenseKey)]

\* unpauseLicense
UnpauseLicense(paused, licenseKey) ==
    IF ~IsLicensePaused(paused, licenseKey)
    THEN [success |-> FALSE, message |-> MsgNotPaused, paused |-> paused]
    ELSE [success |-> TRUE, message |-> "", paused |-> Cascade(paused, licenseKey)]

\* Mutant: any user may pause
PauseLicenseCommand_AnyUser(userId, userToPause) ==
    \E userLicenseToPause \in GetUserLicense(licenses, userToPause) :
       IF userLicenseToPause = NoKey
       THEN /\ last' = Command("pauselicense", userId, userToPause, NULL, NoKey,
                               FALSE, MsgNoLicense)
            /\ UNCHANGED <<licenses, authorized_users, paused_licenses,
                           license_admins, clock, tx, files>>
       ELSE LET r == PauseLicense(licenses, paused_licenses,
                                  userLicenseToPause, userToPause)
            IN  /\ paused_licenses' = r.paused
                /\ last' = Command("pauselicense", userId, userToPause, NULL,
                                   userLicenseToPause, r.success, r.message)
                /\ UNCHANGED <<licenses, authorized_users, license_admins, clock, tx, files>>

\* case 'pauselicense'
PauseLicenseCommand(userId, userToPause) ==
    IF userId # BOT_OWNER_ID
    THEN /\ last' = Command("pauselicense", userId, userToPause, NULL, NoKey,
                            FALSE, MsgOwnerOnly)
         /\ UNCHANGED <<licenses, authorized_users, paused_licenses,
                        license_admins, clock, tx, files>>
    ELSE \E userLicenseToPause \in GetUserLicense(licenses, userToPause) :
           IF userLicenseToPause = NoKey
           THEN /\ last' = Command("pauselicense", userId, userToPause, NULL, NoKey,
                                   FALSE, MsgNoLicense)
                /\ UNCHANGED <<licenses, authorized_users, paused_licenses,
                               license_admins, clock, tx, files>>
           ELSE LET r == PauseLicense(licenses, paused_licenses,
                                      userLicenseToPause, userToPause)
                IN  /\ paused_licenses' = r.paused
                    /\ last' = Command("pauselicense", userId, userToPause, NULL,
                                       userLicenseToPause, r.success, r.message)
                    /\ UNCHANGED <<licenses, authorized_users, license_admins, clock, tx, files>>

\* case 'unpauselicense'
UnpauseLicenseCommand(userId, userToUnpause) ==
    IF userId # BOT_OWNER_ID
    THEN /\ last' = Command("unpauselicense", userId, userToUnpause, NULL, NoKey,
                            FALSE, MsgOwnerOnly)
         /\ UNCHANGED <<licenses, authorized_users, paused_licenses,
                        license_admins, clock, tx, files>>
    ELSE \E userLicenseToUnpause \in GetUserLicense(licenses, userToUnpause) :
           IF userLicenseToUnpause = NoKey
           THEN /\ last' = Command("unpauselicense", userId, userToUnpause, NULL, NoKey,
                                   FALSE, MsgNoLicense)
                /\ UNCHANGED <<licenses, authorized_users, paused_licenses,
                               license_admins, clock, tx, files>>
           ELSE LET r == UnpauseLicense(paused_licenses, userLicenseToUnpause)
                IN  /\ paused_licenses' = r.paused
                    /\ last' = Command("unpauselicense", userId, userToUnpause, NULL,
                                       userLicenseToUnpause, r.success, r.message)
                    /\ UNCHANGED <<licenses, authorized_users, license_admins, clock, tx, files>>

\* Mutant: the new owner's license is not checked
TransferLicenseCommand_NoTargetCheck(userId, fromUser, toUser) ==
    IF userId # BOT_OWNER_ID
    THEN /\ last' = Command("transferlicense", userId, fromUser, toUser, NoKey,
                            FALSE, MsgOwnerOnly)
         /\ UNCHANGED <<licenses, authorized_users, paused_licenses,
                        license_admins, clock, tx, files>>
    ELSE IF fromUser = toUser
    THEN /\ last' = Command("transferlicense", userId, fromUser, toUser, NoKey,
                            FALSE, MsgSameUser)
         /\ UNCHANGED <<licenses, authorized_users, paused_licenses,
                        license_admins, clock, tx, files>>
    ELSE \E fromUserLicense \in GetUserLicense(licenses, fromUser) :
           IF fromUserLicense = NoKey
           THEN /\ last' = Command("transferlicense", userId, fromUser, toUser, NoKey,
                                   FALSE, MsgNoLicense)
                /\ UNCHANGED <<licenses, authorized_users, paused_licenses,
                               license_admins, clock, tx, files>>
           ELSE /\ licenses' = SetOwner(licenses, fromUserLicense, toUser)
                /\ paused_licenses' = SetOwner(paused_licenses, fromUserLicense, toUser)
                /\ last' = Command("transferlicense", userId, fromUser, toUser,
                                   fromUserLicense, TRUE, "")
                /\ UNCHANGED <<authorized_users, license_admins, clock, tx, files>>

\* Mutant: the pause record keeps the previous owner
TransferLicenseCommand_PauseRecordKept(userId, fromUser, toUser) ==
    IF userId # BOT_OWNER_ID
    THEN /\ last' = Command("transferlicense", userId, fromUser, toUser, NoKey,
                            FALSE, MsgOwnerOnly)
         /\ UNCHANGED <<licenses, authorized_users, paused_licenses,
                        license_admins, clock, tx, files>>
    ELSE IF fromUser = toUser
    THEN /\ last' = Command("transferlicense", userId, fromUser, toUser, NoKey,
                            FALSE, MsgSameUser)
         /\ UNCHANGED <<licenses, authorized_users, paused_licenses,
                        license_admins, clock, tx, files>>
    ELSE \E fromUserLicense \in GetUserLicense(licenses, fromUser),
            toUserLicense \in GetUserLicense(licenses, toUser) :
           IF fromUserLicense = NoKey
           THEN /\ last' = Command("transferlicense", userId, fromUser, toUser, NoKey,
                                   FALSE, MsgNoLicense)
                /\ UNCHANGED <<licenses, authorized_users, paused_licenses,
                               license_admins, clock, tx, files>>
           ELSE IF toUserLicense # NoKey
           THEN /\ last' = Command("transferlicense", userId, fromUser, toUser,
                                   toUserLicense, FALSE, MsgAlreadyHasLicense)
                /\ UNCHANGED <<licenses, authorized_users, paused_licenses,
                               license_admins, clock, tx, files>>
           ELSE /\ licenses' = SetOwner(licenses, fromUserLicense, toUser)
                /\ last' = Command("transferlicense", userId, fromUser, toUser,
                                   fromUserLicense, TRUE, "")
                /\ UNCHANGED <<authorized_users, paused_licenses, license_admins,
                               clock, tx, files>>

\* case 'transferlicense'
TransferLicenseCommand(userId, fromUser, toUser) ==
    IF userId # BOT_OWNER_ID
    THEN /\ last' = Command("transferlicense", userId, fromUser, toUser, NoKey,
                            FALSE, MsgOwnerOnly)
         /\ UNCHANGED <<licenses, authorized_users, paused_licenses,
                        license_admins, clock, tx, files>>
    ELSE IF fromUser = toUser
    THEN /\ last' = Command("transferlicense", userId, fromUser, toUser, NoKey,
                            FALSE, MsgSameUser)
         /\ UNCHANGED <<licenses, authorized_users, paused_licenses,
                        license_admins, clock, tx, files>>
    ELSE \E fromUserLicense \in GetUserLicense(licenses, fromUser),
            toUserLicense \in GetUserLicense(licenses, toUser) :
           IF fromUserLicense = NoKey
           THEN /\ last' = Command("transferlicense", userId, fromUser, toUser, NoKey,
                                   FALSE, MsgNoLicense)
                /\ UNCHANGED <<licenses, authorized_users, paused_licenses,
                               license_admins, clock, tx, files>>
           ELSE IF toUserLicense # NoKey
           THEN /\ last' = Command("transferlicense", userId, fromUser, toUser,
                                   toUserLicense, FALSE, MsgAlreadyHasLicense)
                /\ UNCHANGED <<licenses, authorized_users, paused_licenses,
                               license_admins, clock, tx, files>>
           ELSE /\ licenses' = SetOwner(licenses, fromUserLicense, toUser)
                /\ paused_licenses' = SetOwner(paused_licenses, fromUserLicense, toUser)
                /\ last' = Command("transferlicense", userId, fromUser, toUser,
                                   fromUserLicense, TRUE, "")
                /\ UNCHANGED <<authorized_users, license_admins, clock, tx, files>>

\* Time passes between two commands
Tick ==
    /\ clock < MaxClock
    /\ clock' = clock + 1
    /\ last' = [op |-> "tick"]
    /\ UNCHANGED <<licenses, authorized_users, paused_licenses, license_admins, tx, files>>

(***************************************************************************)
(* Registry specification: the license commands, one at a time, from the   *)
(* empty database that initializeDatabase leaves                           *)
(***************************************************************************)
Init ==
    /\ licenses = {}
    /\ authorized_users = {}
    /\ paused_licenses = {}
    /\ license_admins = {}
    /\ clock = 1
    /\ InitFiles
    /\ tx = Idle
    /\ last = NoCommand

Actors == {BOT_OWNER_ID, "u1"}

Next ==
    \/ \E a \in Actors, u \in Users : CreateLicenseCommand(a, u)
    \/ \E a \in Actors, k \in LicenseKeys : DeleteLicenseCommand(a, k)
    \/ \E a \in Actors, u \in Users : PauseLicenseCommand(a, u)
    \/ \E a \in Actors, u \in Users : UnpauseLicenseCommand(a, u)
    \/ \E a \in Actors, u \in Users, v \in Users : TransferLicenseCommand(a, u, v)
    \/ Tick

Spec == Init /\ [][Next]_vars

(***************************************************************************)
(* Interleaved addUserToLicense calls.  Each call is a transaction on its  *)
(* own pooled connection, at PostgreSQL's default READ COMMITTED level: a  *)
(* statement sees the committed rows and the call's own pending writes; an *)
(* INSERT or DELETE that meets a row another open transaction has written  *)
(* waits for that transaction to end.                                      *)
(***************************************************************************)
Procs == {1, 2}

IdleCall == [pc |-> "idle", impl |-> NULL, license |-> NoKey, username |-> NULL,
             vehicle |-> NULL, ins |-> {}, del |-> {}, result |-> NULL]

ActualVehicle(call) == IF call.vehicle = NULL THEN ALL_VEHICLES ELSE call.vehicle

\* The rows a statement of the call sees
Visible(call) == (authorized_users \ call.del) \cup call.ins

\* Rows written by the other open transactions
LockedByOthers(p) == UNION {tx[q].ins \cup tx[q].del : q \in DOMAIN tx \ {p}}

Finish(p, result) ==
    tx' = [tx EXCEPT ![p] = [@ EXCEPT !.pc = "done", !.ins = {}, !.del = {},
                                      !.result = result]]

Goto(p, pc) == tx' = [tx EXCEPT ![p] = [@ EXCEPT !.pc = pc]]

RaceFrame == UNCHANGED <<licenses, paused_licenses, license_admins, clock, files, last>>

\* pool.connect(); BEGIN
StartAdd(p, impl, licenseKey, username, vehicle) ==
    /\ tx[p].pc = "idle"
    /\ tx' = [tx EXCEPT ![p] = [IdleCall EXCEPT
                 !.pc = IF impl = "bot" THEN "allAccessCheck" ELSE "existingCheck",
                 !.impl = impl, !.license = licenseKey, !.username = username,
                 !.vehicle = vehicle]]
    /\ UNCHANGED authorized_users
    /\ RaceFrame

\* bot.js: SELECT ... vehicle = ALL_VEHICLES
BotAllAccessCheck(p) ==
    /\ tx[p].pc = "allAccessCheck"
    /\ IF SelectAuth(Visible(tx[p]), tx[p].license, tx[p].username, ALL_VEHICLES) # {}
       THEN Finish(p, MsgAlreadyAll)
       ELSE Goto(p, "specificCheck")
    /\ UNCHANGED authorized_users
    /\ RaceFrame

\* bot.js: SELECT ... vehicle = actualVehicle
BotSpecificCheck(p) ==
    /\ tx[p].pc = "specificCheck"
    /\ IF SelectAuth(Visible(tx[p]), tx[p].license, tx[p].username,
                     ActualVehicle(tx[p])) # {}
       THEN Finish(p, MsgAlreadyVehicle)
       ELSE Goto(p, "insert")
    /\ UNCHANGED authorized_users
    /\ RaceFrame

\* part_000: SELECT ... vehicle = actualVehicle
ServerExistingCheck(p) ==
    /\ tx[p].pc = "existingCheck"
    /\ IF SelectAuth(Visible(tx[p]), tx[p].license, tx[p].username,
                     ActualVehicle(tx[p])) # {}
       THEN Finish(p, MsgExistsOrError)
       ELSE Goto(p, IF ActualVehicle(tx[p]) = ALL_VEHICLES THEN "delete" ELSE "insert")
    /\ UNCHANGED authorized_users
    /\ RaceFrame

\* part_000: DELETE FROM authorized_users WHERE license_key = $1 AND username = $2
ServerDelete(p) ==
    LET hit == SelectAuthUser(Visible(tx[p]), tx[p].license, tx[p].username)
    IN  /\ tx[p].pc = "delete"
        /\ hit \cap LockedByOthers(p) = {}
        /\ tx' = [tx EXCEPT ![p] = [@ EXCEPT !.pc = "insert", !.del = hit]]
        /\ UNCHANGED authorized_users
        /\ RaceFrame

\* INSERT INTO authorized_users (both files); an error is caught and rolled back
InsertStep(p) ==
    LET newRow == AuthRow(tx[p].license, tx[p].username, ActualVehicle(tx[p]))
    IN  /\ tx[p].pc = "insert"
        /\ newRow \notin LockedByOthers(p)
        /\ IF AuthInsertRaises(licenses, Visible(tx[p]), newRow)
           THEN Finish(p, IF tx[p].impl = "bot" THEN MsgErrorAdding ELSE MsgExistsOrError)
           ELSE tx' = [tx EXCEPT ![p] = [@ EXCEPT !.pc = "commit",
                                                  !.ins = @ \cup {newRow}]]
        /\ UNCHANGED authorized_users
        /\ RaceFrame

\* COMMIT
CommitAdd(p) ==
    /\ tx[p].pc = "commit"
    /\ authorized_users' = (authorized_users \ tx[p].del) \cup tx[p].ins
    /\ Finish(p, "success")
    /\ RaceFrame

InitAddRace ==
    /\ licenses = {LicenseRow(K1, "u1"), LicenseRow(K2, "u2")}
    /\ authorized_users = {}
    /\ paused_licenses = {}
    /\ license_admins = {}
    /\ clock = 1
    /\ InitFiles
    /\ tx = [p \in Procs |-> IdleCall]
    /\ last = NoCommand

\* Two calls, of either file, for the same user of the same license
NextAddRace ==
    \/ \E p \in Procs, impl \in {"bot", "server"}, v \in VehicleOptions :
          StartAdd(p, impl, K1, "Alice", v)
    \/ \E p \in Procs : BotAllAccessCheck(p)
    \/ \E p \in Procs : BotSpecificCheck(p)
    \/ \E p \in Procs : ServerExistingCheck(p)
    \/ \E p \in Procs : ServerDelete(p)
    \/ \E p \in Procs : InsertStep(p)
    \/ \E p \in Procs : CommitAdd(p)

SpecAddRace == InitAddRace /\ [][NextAddRace]_vars

(***************************************************************************)
(* Interleaved createlicense and transferlicense commands of the bot       *)
(* owner.  A handler runs up to its next await; each await is one store    *)
(* call.  The UPDATEs of transferlicense run in one transaction and take   *)
(* effect together at its COMMIT.                                          *)
(***************************************************************************)
IdleCommand == [pc |-> "idle", op |-> NULL, target |-> NULL, other |-> NULL,
                license |-> NoKey, result |-> NULL]

Done(p, result) == tx' = [tx EXCEPT ![p] = [@ EXCEPT !.pc = "done", !.result = result]]

CommandFrame == UNCHANGED <<authorized_users, license_admins, clock, files, last>>

\* createlicense up to `await getUserLicense(targetUser.id)`
StartCreate(p, targetUser) ==
    /\ tx[p].pc = "idle"
    /\ tx' = [tx EXCEPT ![p] = [IdleCommand EXCEPT !.pc = "createCheck",
                                    !.op = "createlicense", !.target = targetUser]]
    /\ UNCHANGED <<licenses, paused_licenses>>
    /\ CommandFrame

\* getUserLicense answers; the key is generated and createLicense is called
CreateCheck(p) ==
    /\ tx[p].pc = "createCheck"
    /\ \E existingLicense \in GetUserLicense(licenses, tx[p].target) :
          IF existingLicense # NoKey
          THEN Done(p, MsgAlreadyHasLicense)
          ELSE tx' = [tx EXCEPT ![p] = [@ EXCEPT !.pc = "createInsert",
                          !.license = GenerateLicenseKey(tx[p].target, clock)]]
    /\ UNCHANGED <<licenses, paused_licenses>>
    /\ CommandFrame

\* the INSERT of createLicense
CreateInsert(p) ==
    LET r == CreateLicense(licenses, tx[p].license, tx[p].target)
    IN  /\ tx[p].pc = "createInsert"
        /\ licenses' = r.licenses
        /\ Done(p, IF r.success THEN "success" ELSE MsgCreateFailed)
        /\ UNCHANGED paused_licenses
        /\ CommandFrame

\* transferlicense up to `await getUserLicense(fromUser.id)`
StartTransfer(p, fromUser, toUser) ==
    /\ tx[p].pc = "idle"
    /\ tx' = [tx EXCEPT ![p] = [IdleCommand EXCEPT
                 !.pc = IF fromUser = toUser THEN "done" ELSE "transferFrom",
                 !.result = IF fromUser = toUser THEN MsgSameUser ELSE NULL,
                 !.op = "transferlicense", !.target = fromUser, !.other = toUser]]
    /\ UNCHANGED <<licenses, paused_licenses>>
    /\ CommandFrame

\* getUserLicense(fromUser.id) answers
TransferCheckFrom(p) ==
    /\ tx[p].pc = "transferFrom"
    /\ \E fromUserLicense \in GetUserLicense(licenses, tx[p].target) :
          IF fromUserLicense = NoKey
          THEN Done(p, MsgNoLicense)
          ELSE tx' = [tx EXCEPT ![p] = [@ EXCEPT !.pc = "transferTo",
                                                 !.license = fromUserLicense]]
    /\ UNCHANGED <<licenses, paused_licenses>>
    /\ CommandFrame

\* getUserLicense(toUser.id) answers
TransferCheckTo(p) ==
    /\ tx[p].pc = "transferTo"
    /\ \E toUserLicense \in GetUserLicense(licenses, tx[p].other) :
          IF toUserLicense # NoKey
          THEN Done(p, MsgAlreadyHasLicense)
          ELSE tx' = [tx EXCEPT ![p] = [@ EXCEPT !.pc = "transferUpdate"]]
    /\ UNCHANGED <<licenses, paused_licenses>>
    /\ CommandFrame

\* BEGIN; UPDATE licenses; UPDATE paused_licenses; COMMIT
TransferUpdate(p) ==
    /\ tx[p].pc = "transferUpdate"
    /\ IF ~LicenseExists(licenses, tx[p].license)
       THEN /\ Done(p, "Failed to transfer license!")
            /\ UNCHANGED <<licenses, paused_licenses>>
       ELSE /\ licenses' = SetOwner(licenses, tx[p].license, tx[p].other)
            /\ paused_licenses' = SetOwner(paused_licenses, tx[p].license, tx[p].other)
            /\ Done(p, "success")
    /\ CommandFrame

\* Time passes while commands are in flight
RaceTick ==
    /\ clock < MaxClock
    /\ clock' = clock + 1
    /\ UNCHANGED <<licenses, authorized_users, paused_licenses, license_admins, tx,
                   files, last>>

\* u1 owns a license (created at time 1); two commands of the bot owner follow
InitOwnerRace ==
    /\ licenses = {LicenseRow(K1, "u1")}
    /\ authorized_users = {}
    /\ paused_licenses = {}
    /\ license_admins = {}
    /\ clock = 1
    /\ InitFiles
    /\ tx = [p \in Procs |-> IdleCommand]
    /\ last = NoCommand

NextOwnerRace ==
    \/ \E p \in Procs, u \in Users : StartCreate(p, u)
    \/ \E p \in Procs : CreateCheck(p)
    \/ \E p \in Procs : CreateInsert(p)
    \/ \E p \in Procs, u \in Users, v \in Users : StartTransfer(p, u, v)
    \/ \E p \in Procs : TransferCheckFrom(p)
    \/ \E p \in Procs : TransferCheckTo(p)
    \/ \E p \in Procs : TransferUpdate(p)
    \/ RaceTick

SpecOwnerRace == InitOwnerRace /\ [][NextOwnerRace]_vars

(***************************************************************************)
(* Staff directory of the bot: addstaff, removestaff                       *)
(***************************************************************************)
MsgAlreadyStaff == "User is already staff for this license"
MsgOwnerAsStaff == "Cannot add license owner as staff"
MsgErrorAddingStaff == "Error adding staff member"
MsgStaffNotFound == "Staff member not found for this license"
MsgYouNoLicense == "You don't have a license!"

StaffRow(licenseKey, userId, roleType, addedBy) ==
    [license_key |-> licenseKey, user_id |-> userId, role_type |-> roleType,
     added_by |-> addedBy]

\* ... FROM license_admins WHERE license_key = $1 AND user_id = $2
SelectStaff(admins, licenseKey, userId) ==
    {a \in admins : a.license_key = licenseKey /\ a.user_id = userId}

\* INSERT INTO license_admins raises when the license_key references no
\* license or when UNIQUE(license_key, user_id) is violated.
StaffInsertRaises(lics, admins, row) ==
    \/ ~LicenseExists(lics, row.license_key)
    \/ SelectStaff(admins, row.license_key, row.user_id) # {}

\* Mutant: the owner check is missing
AddLicenseStaff_NoOwnerCheck(lics, admins, licenseKey, staffUserId, roleType, addedByUserId) ==
    LET existingCheck == SelectStaff(admins, licenseKey, staffUserId)
        newRow == StaffRow(licenseKey, staffUserId, roleType, addedByUserId)
    IN  IF existingCheck # {}
        THEN [success |-> FALSE, message |-> MsgAlreadyStaff, admins |-> admins]
        ELSE IF StaffInsertRaises(lics, admins, newRow)
        THEN [success |-> FALSE, message |-> MsgErrorAddingStaff, admins |-> admins]
        ELSE [success |-> TRUE, message |-> "", admins |-> admins \cup {newRow}]

\* Mutant: an existing staff row is replaced by the new role
AddLicenseStaff_ReplacesRole(lics, admins, licenseKey, staffUserId, roleType, addedByUserId) ==
    LET existingCheck == SelectStaff(admins, licenseKey, staffUserId)
        ownerCheck == {l \in lics : l.license_key = licenseKey /\ l.owner_id = staffUserId}
        newRow == StaffRow(licenseKey, staffUserId, roleType, addedByUserId)
    IN  IF ownerCheck # {}
        THEN [success |-> FALSE, message |-> MsgOwnerAsStaff, admins |-> admins]
        ELSE IF ~LicenseExists(lics, licenseKey)
        THEN [success |-> FALSE, message |-> MsgErrorAddingStaff, admins |-> admins]
        ELSE [success |-> TRUE, message |-> "",
              admins |-> (admins \ existingCheck) \cup {newRow}]

AddLicenseStaff(lics, admins, licenseKey, staffUserId, roleType, addedByUserId) ==
    LET existingCheck == SelectStaff(admins, licenseKey, staffUserId)
        ownerCheck == {l \in lics : l.license_key = licenseKey /\ l.owner_id = staffUserId}
        newRow == StaffRow(licenseKey, staffUserId, roleType, addedByUserId)
    IN  IF existingCheck # {}
        THEN [success |-> FALSE, message |-> MsgAlreadyStaff, admins |-> admins]
        ELSE IF ownerCheck # {}
        THEN [success |-> FALSE, message |-> MsgOwnerAsStaff, admins |-> admins]
        ELSE IF StaffInsertRaises(lics, admins, newRow)
        THEN [success |-> FALSE, message |-> MsgErrorAddingStaff, admins |-> admins]
        ELSE [success |-> TRUE, message |-> "", admins |-> admins \cup {newRow}]

RemoveLicenseStaff(admins, licenseKey, staffUserId) ==
    LET hit == SelectStaff(admins, licenseKey, staffUserId)
    IN  IF hit = {}
        THEN [success |-> FALSE, message |-> MsgStaffNotFound, admins |-> admins]
        ELSE [success |-> TRUE, message |-> "", admins |-> admins \ hit]

\* Mutant: an actor without a license adds staff to a license they are admin
\* staff of
AddStaffCommand_AdminStaffMayAdd(userId, staffUserToAdd, staffRole) ==
    \E userLicense4 \in
          IF GetUserLicense(licenses, userId) # {NoKey}
          THEN GetUserLicense(licenses, userId)
          ELSE {a.license_key : a \in {x \in license_admins :
                                          x.user_id = userId /\ x.role_type = ROLE_ADMIN}}
               \cup {NoKey} :
        IF userLicense4 = NoKey
        THEN /\ last' = [Command("addstaff", userId, staffUserToAdd, NULL, NoKey,
                                 FALSE, MsgYouNoLicense) EXCEPT !.other = staffRole]
             /\ UNCHANGED <<licenses, authorized_users, paused_licenses,
                            license_admins, clock, tx, files>>
        ELSE LET addStaffResult == AddLicenseStaff(licenses, license_admins, userLicense4,
                                                   staffUserToAdd, staffRole, userId)
             IN  /\ license_admins' = addStaffResult.admins
                 /\ last' = Command("addstaff", userId, staffUserToAdd, staffRole,
                                    userLicense4, addStaffResult.success,
                                    addStaffResult.message)
                 /\ UNCHANGED <<licenses, authorized_users, paused_licenses, clock, tx, files>>

\* case 'addstaff'
AddStaffCommand(userId, staffUserToAdd, staffRole) ==
    \E userLicense4 \in GetUserLicense(licenses, userId) :
        IF userLicense4 = NoKey
        THEN /\ last' = [Command("addstaff", userId, staffUserToAdd, NULL, NoKey,
                                 FALSE, MsgYouNoLicense) EXCEPT !.other = staffRole]
             /\ UNCHANGED <<licenses, authorized_users, paused_licenses,
                            license_admins, clock, tx, files>>
        ELSE LET addStaffResult == AddLicenseStaff(licenses, license_admins, userLicense4,
                                                   staffUserToAdd, staffRole, userId)
             IN  /\ license_admins' = addStaffResult.admins
                 /\ last' = Command("addstaff", userId, staffUserToAdd, staffRole,
                                    userLicense4, addStaffResult.success,
                                    addStaffResult.message)
                 /\ UNCHANGED <<licenses, authorized_users, paused_licenses, clock, tx, files>>

\* case 'removestaff'
RemoveStaffCommand(userId, staffUserToRemove) ==
    \E userLicense5 \in GetUserLicense(licenses, userId) :
        IF userLicense5 = NoKey
        THEN /\ last' = Command("removestaff", userId, staffUserToRemove, NULL, NoKey,
                                FALSE, MsgYouNoLicense)
             /\ UNCHANGED <<licenses, authorized_users, paused_licenses,
                            license_admins, clock, tx, files>>
        ELSE LET removeStaffResult == RemoveLicenseStaff(license_admins, userLicense5,
                                                         staffUserToRemove)
             IN  /\ license_admins' = removeStaffResult.admins
                 /\ last' = Command("removestaff", userId, staffUserToRemove, NULL,
                                    userLicense5, removeStaffResult.success,
                                    removeStaffResult.message)
                 /\ UNCHANGED <<licenses, authorized_users, paused_licenses, clock, tx, files>>

(***************************************************************************)
(* Reads: the authorized command of the bot and the check endpoint of the  *)
(* API server                                                              *)
(***************************************************************************)
MsgNoViewPermission == "You don't have permission to view this license!"
MsgMultipleStaffView == "You have staff access to multiple licenses. Please specify which license to view"

\* getUsersForLicense: SELECT username, vehicle ... WHERE license_key = $1
GetUsersForLicense(rows, licenseKey) ==
    {[username |-> r.username, vehicle |-> r.vehicle] :
        r \in {x \in rows : x.license_key = licenseKey}}

\* The replies of authorize that authorized words for viewing
ViewMessage(message) ==
    IF message = MsgNoPermission THEN MsgNoViewPermission
    ELSE IF message = MsgMultipleStaff THEN MsgMultipleStaffView
    ELSE message

\* case 'authorized': the embed lists the users of the license and its status
AuthorizedCommand(userId, specifiedLicenseKey3) ==
    \E userLicense3 \in GetUserLicense(licenses, userId) :
      \E target \in ResolveLicense(licenses, license_admins, userId, userLicense3,
                                   specifiedLicenseKey3, FALSE) :
        /\ IF ~target.ok
           THEN last' = [op |-> "list", actor |-> userId, license |-> target.license,
                         called |-> FALSE, message |-> ViewMessage(target.message),
                         paused |-> FALSE, users |-> {}]
           ELSE \E viewPermission \in CanUserManageLicense(licenses, license_admins,
                                          userId, target.license, FALSE) :
                  IF ~viewPermission.canManage
                  THEN last' = [op |-> "list", actor |-> userId,
                                license |-> target.license, called |-> FALSE,
                                message |-> MsgNoViewPermission,
                                paused |-> FALSE, users |-> {}]
                  ELSE last' = [op |-> "list", actor |-> userId,
                                license |-> target.license, called |-> TRUE,
                                message |-> "",
                                paused |-> IsLicensePaused(paused_licenses, target.license),
                                users |-> GetUsersForLicense(authorized_users,
                                                             target.license)]
        /\ UNCHANGED <<licenses, authorized_users, paused_licenses,
                       license_admins, clock, tx, files>>

\* Mutant: the answer is filtered by the pause marker
CheckUserLicenseEndpoint_FilteredByPause(licenseKey, username) ==
    /\ last' = [op |-> "check", license |-> licenseKey, username |-> username,
                approved |-> /\ CheckUserLicense(authorized_users, licenseKey, username)
                             /\ ~IsLicensePaused(paused_licenses, licenseKey)]
    /\ UNCHANGED <<licenses, authorized_users, paused_licenses,
                   license_admins, clock, tx, files>>

\* GET /check-user-license/:licenseKey/:username (route parameters are never empty)
CheckUserLicenseEndpoint(licenseKey, username) ==
    /\ last' = [op |-> "check", license |-> licenseKey, username |-> username,
                approved |-> CheckUserLicense(authorized_users, licenseKey, username)]
    /\ UNCHANGED <<licenses, authorized_users, paused_licenses,
                   license_admins, clock, tx, files>>

(***************************************************************************)
(* Lifecycle specification: the license and staff commands, with grants    *)
(* added by the license owners and their staff, one command at a time,     *)
(* from the empty database                                                 *)
(***************************************************************************)
Members == {"u1", "u2"}
StaffRoles == {ROLE_ADMIN, ROLE_HELPER}
LifeKeys == {K1, K2}
LifeUsernames == {"Alice"}

NextLifecycle ==
    \/ \E u \in Members : CreateLicenseCommand(BOT_OWNER_ID, u)
    \/ \E k \in LifeKeys : DeleteLicenseCommand(BOT_OWNER_ID, k)
    \/ \E u \in Members : PauseLicenseCommand(BOT_OWNER_ID, u)
    \/ \E u \in Members : UnpauseLicenseCommand(BOT_OWNER_ID, u)
    \/ \E u \in Members, v \in Members : TransferLicenseCommand(BOT_OWNER_ID, u, v)
    \/ \E a \in Members, u \in Members, r \in StaffRoles : AddStaffCommand(a, u, r)
    \/ \E a \in Members, u \in Members : RemoveStaffCommand(a, u)
    \/ \E a \in Members, n \in LifeUsernames : Authorize(a, NoKey, n, NULL)

SpecLifecycle == Init /\ [][NextLifecycle]_vars

(***************************************************************************)
(* Access specification: one license, created for u1, its staff member u2, *)
(* pause and unpause, the grant commands of both, the authorized command   *)
(* and the check endpoint                                                  *)
(***************************************************************************)
AccessOwner == "u1"
AccessStaff == "u2"
AccessActors == {AccessOwner, AccessStaff}
AccessKeyOptions == {NoKey, K1}

NextAccess ==
    \/ CreateLicenseCommand(BOT_OWNER_ID, AccessOwner)
    \/ PauseLicenseCommand(BOT_OWNER_ID, AccessOwner)
    \/ UnpauseLicenseCommand(BOT_OWNER_ID, AccessOwner)
    \/ \E r \in StaffRoles : AddStaffCommand(AccessOwner, AccessStaff, r)
    \/ RemoveStaffCommand(AccessOwner, AccessStaff)
    \/ \E a \in AccessActors, k \in AccessKeyOptions, n \in LifeUsernames,
          v \in VehicleOptions : Authorize(a, k, n, v)
    \/ \E a \in AccessActors, k \in AccessKeyOptions, n \in LifeUsernames,
          v \in VehicleOptions : Deauthorize(a, k, n, v)
    \/ \E a \in AccessActors, k \in AccessKeyOptions : AuthorizedCommand(a, k)
    \/ \E n \in LifeUsernames : CheckUserLicenseEndpoint(K1, n)

SpecAccess == Init /\ [][NextAccess]_vars

(***************************************************************************)
(* Resolution specification: u1 and u2 each own a license; they add and    *)
(* remove the bot owner and u1 as staff, and the bot owner and u1 use the  *)
(* grant commands with and without the license key option                  *)
(***************************************************************************)
InitResolve ==
    /\ licenses = {LicenseRow(K1, "u1"), LicenseRow(K2, "u2")}
    /\ authorized_users = {}
    /\ paused_licenses = {}
    /\ license_admins = {}
    /\ clock = 1
    /\ InitFiles
    /\ tx = Idle
    /\ last = NoCommand

ResolveOwners == {"u1", "u2"}
ResolveActors == {BOT_OWNER_ID, "u1"}
ResolveKeyOptions == {NoKey, K1, K2}

NextResolve ==
    \/ \E a \in ResolveOwners, u \in ResolveActors, r \in StaffRoles : AddStaffCommand(a, u, r)
    \/ \E a \in ResolveOwners, u \in ResolveActors : RemoveStaffCommand(a, u)
    \/ \E a \in ResolveActors, k \in ResolveKeyOptions, n \in LifeUsernames :
          Authorize(a, k, n, NULL)
    \/ \E a \in ResolveActors, k \in ResolveKeyOptions, n \in LifeUsernames :
          Deauthorize(a, k, n, NULL)
    \/ \E a \in ResolveActors, k \in ResolveKeyOptions : AuthorizedCommand(a, k)

SpecResolve == InitResolve /\ [][NextResolve]_vars

(***************************************************************************)
(* The endpoints of the file-backed server                                 *)
(***************************************************************************)
DbFrame ==
    UNCHANGED <<licenses, authorized_users, paused_licenses, license_admins, clock, tx>>

FileCommand(op, username, authorized, success) ==
    [op |-> op, username |-> username, authorized |-> authorized, success |-> success]

\* POST /admin/add-user
AdminAddUser(adminKey, username) ==
    /\ Len(approved_users_file) + 1 + Len(username) <= MaxFileLen
    /\ DbFrame
    /\ UNCHANGED licenses_dir
    /\ IF adminKey # ADMIN_KEY
       THEN /\ last' = FileCommand("add-user", username, FALSE, FALSE)
            /\ UNCHANGED approved_users_file
       ELSE IF username = <<>>
       THEN /\ last' = FileCommand("add-user", username, TRUE, FALSE)
            /\ UNCHANGED approved_users_file
       ELSE LET r == AddApprovedUser(approved_users_file, username)
            IN  /\ approved_users_file' = r.file
                /\ last' = FileCommand("add-user", username, TRUE, r.success)

\* POST /admin/remove-user
AdminRemoveUser(adminKey, username) ==
    /\ DbFrame
    /\ UNCHANGED licenses_dir
    /\ IF adminKey # ADMIN_KEY
       THEN /\ last' = FileCommand("remove-user", username, FALSE, FALSE)
            /\ UNCHANGED approved_users_file
       ELSE IF username = <<>>
       THEN /\ last' = FileCommand("remove-user", username, TRUE, FALSE)
            /\ UNCHANGED approved_users_file
       ELSE LET r == RemoveApprovedUser(approved_users_file, username)
            IN  /\ approved_users_file' = r.file
                /\ last' = FileCommand("remove-user", username, TRUE, r.success)

\* GET /check-user/:username (route parameters are never empty)
CheckUser(username) ==
    /\ last' = [op |-> "check-user", username |-> username,
                approved |-> Includes(GetApprovedUsers(approved_users_file), username)]
    /\ DbFrame
    /\ UNCHANGED files

\* GET /check-user-license/:licenseKey/:username of the file-backed server
FileCheckUserLicenseEndpoint(licenseKey, username) ==
    /\ last' = [op |-> "check-file", license |-> licenseKey, username |-> username,
                approved |-> Includes(FileGetUsersForLicense(licenses_dir, licenseKey),
                                      username)]
    /\ DbFrame
    /\ UNCHANGED files

(***************************************************************************)
(* File specification: the requests of the file-backed server, one at a    *)
(* time; the license files are put in place by hand before it starts       *)
(***************************************************************************)
FileUsernames == {<<"a">>, <<" ", "a">>, <<"#", "a">>}
FileBodies == FileUsernames \cup {<<>>}
FileLicenseKeys == {<<"k", "/", "1">>, <<"k", "b">>}
LicenseDirs ==
    {EmptyLicensesDir,
     [f \in {<<"k", "1">>} |-> <<"a", NL, "#", "a", NL>>],
     [f \in {<<"k", "1">>} |-> <<"#", "a">>]}

InitFile ==
    /\ licenses = {}
    /\ authorized_users = {}
    /\ paused_licenses = {}
    /\ license_admins = {}
    /\ clock = 1
    /\ tx = Idle
    /\ approved_users_file = InitialContent
    /\ licenses_dir \in LicenseDirs
    /\ last = NoCommand

NextFile ==
    \/ \E k \in AdminKeys, n \in FileBodies : AdminAddUser(k, n)
    \/ \E k \in AdminKeys, n \in FileBodies : AdminRemoveUser(k, n)
    \/ \E n \in FileUsernames : CheckUser(n)
    \/ \E k \in FileLicenseKeys, n \in FileUsernames : FileCheckUserLicenseEndpoint(k, n)

SpecFile == InitFile /\ [][NextFile]_vars

(***************************************************************************)
(* Check specification: the check endpoints of both servers, while the bot *)
(* owner creates and deletes the license of u1 and u1 adds and removes     *)
(* grants                                                                  *)
(***************************************************************************)
InitCheck ==
    /\ licenses = {}
    /\ authorized_users = {}
    /\ paused_licenses = {}
    /\ license_admins = {}
    /\ clock = 1
    /\ tx = Idle
    /\ approved_users_file = InitialContent
    /\ licenses_dir \in LicenseDirs
    /\ last = NoCommand

NextCheck ==
    \/ CreateLicenseCommand(BOT_OWNER_ID, "u1")
    \/ DeleteLicenseCommand(BOT_OWNER_ID, K1)
    \/ \E n \in LifeUsernames, v \in VehicleOptions : Authorize("u1", NoKey, n, v)
    \/ \E n \in LifeUsernames, v \in VehicleOptions : Deauthorize("u1", NoKey, n, v)
    \/ \E k \in {K1, K2}, n \in LifeUsernames : CheckUserLicenseEndpoint(k, n)
    \/ \E k \in FileLicenseKeys, n \in FileUsernames : FileCheckUserLicenseEndpoint(k, n)

SpecCheck == InitCheck /\ [][NextCheck]_vars

(***************************************************************************)
(* Pause specification: the license of u1 is paused, unpaused and deleted  *)
(* by the bot owner while u1 (chat) and the administrator (HTTP) add and   *)
(* remove its grants, one request at a time                                *)
(***************************************************************************)
InitPause ==
    /\ licenses = {LicenseRow(K1, "u1")}
    /\ authorized_users = {}
    /\ paused_licenses = {}
    /\ license_admins = {}
    /\ clock = 1
    /\ InitFiles
    /\ tx = Idle
    /\ last = NoCommand

NextPause ==
    \/ PauseLicenseCommand(BOT_OWNER_ID, "u1")
    \/ UnpauseLicenseCommand(BOT_OWNER_ID, "u1")
    \/ DeleteLicenseCommand(BOT_OWNER_ID, K1)
    \/ \E n \in Usernames, v \in VehicleOptions : Authorize("u1", NoKey, n, v)
    \/ \E n \in Usernames, v \in VehicleOptions : Deauthorize("u1", NoKey, n, v)
    \/ \E n \in Usernames, v \in VehicleOptions :
          AdminAddUserLicense(ADMIN_KEY, K1, n, v)
    \/ \E n \in Usernames, v \in VehicleOptions :
          AdminRemoveUserLicense(ADMIN_KEY, K1, n, v)

SpecPause == InitPause /\ [][NextPause]_vars

(***************************************************************************)
(* Pause race: a pauselicense command interleaved with authorize and       *)
(* deauthorize commands; every await of a handler is a step                *)
(***************************************************************************)
IdleGrantCommand == [pc |-> "idle", op |-> NULL, actor |-> NULL, target |-> NULL,
                     license |-> NoKey, username |-> NULL, vehicle |-> NULL,
                     result |-> NULL]

PauseRaceFrame == UNCHANGED <<licenses, license_admins, clock, files, last>>

\* authorize / deauthorize up to `await getUserLicense(user.id)`
StartGrantCommand(p, op, userId, username, vehicle) ==
    /\ tx[p].pc = "idle"
    /\ tx' = [tx EXCEPT ![p] = [IdleGrantCommand EXCEPT !.pc = "resolve", !.op = op,
                                    !.actor = userId, !.username = username,
                                    !.vehicle = vehicle]]
    /\ UNCHANGED <<authorized_users, paused_licenses>>
    /\ PauseRaceFrame

\* getUserLicense, getUserStaffRoles and canUserManageLicense answer (none of
\* the tables they read changes in this specification)
GrantResolve(p) ==
    /\ tx[p].pc = "resolve"
    /\ \E own \in GetUserLicense(licenses, tx[p].actor) :
       \E target \in ResolveLicense(licenses, license_admins, tx[p].actor, own,
                                    NoKey, tx[p].op = "remove") :
          IF ~target.ok
          THEN Done(p, target.message)
          ELSE \E permission \in CanUserManageLicense(licenses, license_admins,
                                    tx[p].actor, target.license, tx[p].op = "remove") :
                  IF ~permission.canManage
                  THEN Done(p, IF tx[p].op = "remove" THEN RoleMessage(permission)
                               ELSE MsgNoPermission)
                  ELSE tx' = [tx EXCEPT ![p] = [@ EXCEPT !.pc = "pausedCheck",
                                                         !.license = target.license]]
    /\ UNCHANGED <<authorized_users, paused_licenses>>
    /\ PauseRaceFrame

\* `await isLicensePaused(userLicense)` answers
GrantPausedCheck(p) ==
    /\ tx[p].pc = "pausedCheck"
    /\ IF IsLicensePaused(paused_licenses, tx[p].license)
       THEN Done(p, MsgPaused)
       ELSE tx' = [tx EXCEPT ![p] = [@ EXCEPT !.pc = "store"]]
    /\ UNCHANGED <<authorized_users, paused_licenses>>
    /\ PauseRaceFrame

\* `await addUserToLicense(...)` / `await removeUserFromLicense(...)` commits
GrantStore(p) ==
    /\ tx[p].pc = "store"
    /\ IF tx[p].op = "add"
       THEN LET addResult == BotAddUserToLicense(licenses, authorized_users,
                                 tx[p].license, tx[p].username, tx[p].vehicle)
            IN  /\ authorized_users' = addResult.rows
                /\ Done(p, addResult.message)
       ELSE LET removeSuccess == BotRemoveUserFromLicense(authorized_users,
                                     tx[p].license, tx[p].username, tx[p].vehicle)
            IN  /\ authorized_users' = removeSuccess.rows
                /\ Done(p, IF removeSuccess.success THEN "" ELSE MsgNotFound)
    /\ UNCHANGED paused_licenses
    /\ PauseRaceFrame

\* pauselicense of the bot owner up to `await getUserLicense(userToPause.id)`
StartPause(p, userToPause) ==
    /\ tx[p].pc = "idle"
    /\ tx' = [tx EXCEPT ![p] = [IdleGrantCommand EXCEPT !.pc = "pauseLookup",
                                    !.op = "pauselicense", !.actor = BOT_OWNER_ID,
                                    !.target = userToPause]]
    /\ UNCHANGED <<authorized_users, paused_licenses>>
    /\ PauseRaceFrame

\* getUserLicense(userToPause.id) answers
PauseLookup(p) ==
    /\ tx[p].pc = "pauseLookup"
    /\ \E userLicenseToPause \in GetUserLicense(licenses, tx[p].target) :
          IF userLicenseToPause = NoKey
          THEN Done(p, MsgNoLicense)
          ELSE tx' = [tx EXCEPT ![p] = [@ EXCEPT !.pc = "pauseCommit",
                                                 !.license = userLicenseToPause]]
    /\ UNCHANGED <<authorized_users, paused_licenses>>
    /\ PauseRaceFrame

\* the transaction of pauseLicense commits
PauseCommit(p) ==
    /\ tx[p].pc = "pauseCommit"
    /\ LET r == PauseLicense(licenses, paused_licenses, tx[p].license, tx[p].target)
       IN  /\ paused_licenses' = r.paused
           /\ Done(p, r.message)
    /\ UNCHANGED authorized_users
    /\ PauseRaceFrame

\* u1 owns a license, with or without a grant; two commands follow
InitPauseRace ==
    /\ licenses = {LicenseRow(K1, "u1")}
    /\ authorized_users \in {{}, {AuthRow(K1, "Alice", ALL_VEHICLES)}}
    /\ paused_licenses = {}
    /\ license_admins = {}
    /\ clock = 1
    /\ InitFiles
    /\ tx = [p \in Procs |-> IdleGrantCommand]
    /\ last = NoCommand

NextPauseRace ==
    \/ \E p \in Procs, op \in {"add", "remove"}, n \in LifeUsernames, v \in VehicleOptions :
          StartGrantCommand(p, op, "u1", n, v)
    \/ \E p \in Procs : GrantResolve(p)
    \/ \E p \in Procs : GrantPausedCheck(p)
    \/ \E p \in Procs : GrantStore(p)
    \/ \E p \in Procs : StartPause(p, "u1")
    \/ \E p \in Procs : PauseLookup(p)
    \/ \E p \in Procs : PauseCommit(p)

SpecPauseRace == InitPauseRace /\ [][NextPauseRace]_vars

(***************************************************************************)
(* The admin endpoints that list, and the admin specification: requests    *)
(* with the configured admin key and with another key, to both servers     *)
(***************************************************************************)
AdminList(op, adminKey, licenseKey, users) ==
    [op |-> op, actor |-> adminKey, license |-> licenseKey,
     authorized |-> (adminKey = ADMIN_KEY),
     users |-> IF adminKey = ADMIN_KEY THEN users ELSE NULL]

\* GET /admin/license-users/:licenseKey of the database server
AdminLicenseUsers(adminKey, licenseKey) ==
    /\ last' = AdminList("license-users", adminKey, licenseKey,
                         GetUsersForLicense(authorized_users, licenseKey))
    /\ DbFrame
    /\ UNCHANGED files

\* GET /admin/users of the file-backed server
AdminUsers(adminKey) ==
    /\ last' = AdminList("users", adminKey, NoKey, GetApprovedUsers(approved_users_file))
    /\ DbFrame
    /\ UNCHANGED files

\* GET /admin/license-users/:licenseKey of the file-backed server
FileAdminLicenseUsers(adminKey, licenseKey) ==
    /\ last' = AdminList("license-users-file", adminKey, licenseKey,
                         FileGetUsersForLicense(licenses_dir, licenseKey))
    /\ DbFrame
    /\ UNCHANGED files

AdminUsernames == {<<"a">>}
AdminFileKeys == {<<"k", "1">>}

InitAdmin ==
    /\ licenses = {LicenseRow(K1, "u1")}
    /\ authorized_users = {}
    /\ paused_licenses = {}
    /\ license_admins = {}
    /\ clock = 1
    /\ tx = Idle
    /\ approved_users_file = InitialContent
    /\ licenses_dir \in LicenseDirs
    /\ last = NoCommand

NextAdmin ==
    \/ \E a \in AdminKeys, n \in LifeUsernames, v \in VehicleOptions :
          AdminAddUserLicense(a, K1, n, v)
    \/ \E a \in AdminKeys, n \in LifeUsernames, v \in VehicleOptions :
          AdminRemoveUserLicense(a, K1, n, v)
    \/ \E a \in AdminKeys : AdminLicenseUsers(a, K1)
    \/ \E a \in AdminKeys, n \in AdminUsernames : AdminAddUser(a, n)
    \/ \E a \in AdminKeys, n \in AdminUsernames : AdminRemoveUser(a, n)
    \/ \E a \in AdminKeys : AdminUsers(a)
    \/ \E a \in AdminKeys, k \in AdminFileKeys : FileAdminLicenseUsers(a, k)

SpecAdmin == InitAdmin /\ [][NextAdmin]_vars

(***************************************************************************)
(* Interleaved addApprovedUser / removeApprovedUser calls of the           *)
(* file-backed server: the read of the file and the write are two awaits   *)
(***************************************************************************)
IdleFileCall == [pc |-> "idle", op |-> NULL, username |-> <<>>,
                 approvedUsers |-> <<>>, result |-> NULL]

\* addApprovedUser(username) / removeApprovedUser(username) is called
StartFileCall(p, op, username) ==
    /\ tx[p].pc = "idle"
    /\ tx' = [tx EXCEPT ![p] = [IdleFileCall EXCEPT !.pc = "read", !.op = op,
                                                    !.username = username]]
    /\ UNCHANGED <<licenses, authorized_users, paused_licenses, license_admins,
                   clock, files, last>>

\* `await getApprovedUsers()` answers; the call returns false when there is
\* nothing to write
FileRead(p) ==
    /\ tx[p].pc = "read"
    /\ LET approvedUsers == GetApprovedUsers(approved_users_file)
           write == IF tx[p].op = "add"
                    THEN ~Includes(approvedUsers, tx[p].username)
                    ELSE Includes(approvedUsers, tx[p].username)
       IN  tx' = [tx EXCEPT ![p] = [@ EXCEPT !.pc = IF write THEN "write" ELSE "done",
                                             !.approvedUsers = approvedUsers,
                                             !.result = IF write THEN NULL ELSE FALSE]]
    /\ UNCHANGED <<licenses, authorized_users, paused_licenses, license_admins,
                   clock, files, last>>

\* `await fs.appendFile(...)` / `await fs.writeFile(...)` completes
FileWrite(p) ==
    /\ tx[p].pc = "write"
    /\ approved_users_file' =
          IF tx[p].op = "add"
          THEN approved_users_file \o <<NL>> \o tx[p].username
          ELSE Join(SelectSeq(tx[p].approvedUsers, LAMBDA user : user # tx[p].username))
    /\ tx' = [tx EXCEPT ![p] = [@ EXCEPT !.pc = "done", !.result = TRUE]]
    /\ UNCHANGED <<licenses, authorized_users, paused_licenses, license_admins,
                   clock, licenses_dir, last>>

\* The file after a successful add of "a"
RaceStartFile == AddApprovedUser(InitialContent, <<"a">>).file

InitFileRace ==
    /\ licenses = {}
    /\ authorized_users = {}
    /\ paused_licenses = {}
    /\ license_admins = {}
    /\ clock = 1
    /\ tx = [p \in Procs |-> IdleFileCall]
    /\ approved_users_file = RaceStartFile
    /\ licenses_dir = EmptyLicensesDir
    /\ last = NoCommand

NextFileRace ==
    \/ \E p \in Procs, op \in {"add", "remove"}, n \in {<<"a">>, <<"b">>} :
          StartFileCall(p, op, n)
    \/ \E p \in Procs : FileRead(p)
    \/ \E p \in Procs : FileWrite(p)

SpecFileRace == InitFileRace /\ [][NextFileRace]_vars

(***************************************************************************)
(* Storage faults inside a transaction.  Any statement of an open          *)
(* transaction may raise; the catch block of the function runs ROLLBACK,   *)
(* which discards the pending writes of the transaction.                   *)
(***************************************************************************)
MsgTransferFailed == "Failed to transfer license!"
MsgTransferError == "An error occurred while transferring the license!"

IdleTransfer == [pc |-> "idle", impl |-> "transfer", license |-> NoKey, other |-> NULL,
                 ownerUpdated |-> FALSE, pauseUpdated |-> FALSE,
                 ins |-> {}, del |-> {}, result |-> NULL]

OpenPcs == {"allAccessCheck", "specificCheck", "existingCheck", "delete", "insert",
            "commit", "updateOwner", "updatePause", "commitTransfer"}

FaultFrame == UNCHANGED <<authorized_users, license_admins, clock, files, last>>

\* transferlicense after its checks: pool.connect(); BEGIN
StartTransferTx(p, fromUserLicense, toUser) ==
    /\ tx[p].pc = "idle"
    /\ tx' = [tx EXCEPT ![p] = [IdleTransfer EXCEPT !.pc = "updateOwner",
                                    !.license = fromUserLicense, !.other = toUser]]
    /\ UNCHANGED <<licenses, paused_licenses>>
    /\ FaultFrame

\* UPDATE licenses SET owner_id ...; rowCount 0 rolls back
TransferOwnerUpdate(p) ==
    /\ tx[p].pc = "updateOwner"
    /\ \A q \in Procs \ {p} :
          ~(tx[q].impl = "transfer" /\ tx[q].license = tx[p].license
            /\ tx[q].pc \in {"updatePause", "commitTransfer"})
    /\ IF ~LicenseExists(licenses, tx[p].license)
       THEN Finish(p, MsgTransferFailed)
       ELSE tx' = [tx EXCEPT ![p] = [@ EXCEPT !.pc = "updatePause",
                                              !.ownerUpdated = TRUE]]
    /\ UNCHANGED <<licenses, paused_licenses>>
    /\ FaultFrame

\* UPDATE paused_licenses SET owner_id ...
TransferPauseUpdate(p) ==
    /\ tx[p].pc = "updatePause"
    /\ tx' = [tx EXCEPT ![p] = [@ EXCEPT !.pc = "commitTransfer", !.pauseUpdated = TRUE]]
    /\ UNCHANGED <<licenses, paused_licenses>>
    /\ FaultFrame

\* COMMIT of transferlicense
TransferCommit(p) ==
    /\ tx[p].pc = "commitTransfer"
    /\ licenses' = IF tx[p].ownerUpdated
                   THEN SetOwner(licenses, tx[p].license, tx[p].other) ELSE licenses
    /\ paused_licenses' = IF tx[p].pauseUpdated
                          THEN SetOwner(paused_licenses, tx[p].license, tx[p].other)
                          ELSE paused_licenses
    /\ Finish(p, "success")
    /\ FaultFrame

\* Mutant: the statements are not in a transaction, the writes made so far stay
StatementFault_NoRollback(p) ==
    /\ tx[p].pc \in OpenPcs
    /\ authorized_users' = (authorized_users \ tx[p].del) \cup tx[p].ins
    /\ licenses' = IF tx[p].impl = "transfer" /\ tx[p].ownerUpdated
                   THEN SetOwner(licenses, tx[p].license, tx[p].other) ELSE licenses
    /\ Finish(p, IF tx[p].impl = "bot" THEN MsgErrorAdding
                 ELSE IF tx[p].impl = "server" THEN MsgExistsOrError
                 ELSE MsgTransferError)
    /\ UNCHANGED <<paused_licenses, license_admins, clock, files, last>>

\* A statement raises: catch (error) { ROLLBACK; return failure }
StatementFault(p) ==
    /\ tx[p].pc \in OpenPcs
    /\ Finish(p, IF tx[p].impl = "bot" THEN MsgErrorAdding
                 ELSE IF tx[p].impl = "server" THEN MsgExistsOrError
                 ELSE MsgTransferError)
    /\ UNCHANGED <<licenses, authorized_users, paused_licenses, license_admins,
                   clock, files, last>>

\* The paused license of u1 has a grant of one car to Alice
InitFault ==
    /\ licenses = {LicenseRow(K1, "u1")}
    /\ authorized_users = {AuthRow(K1, "Alice", CarNames[1])}
    /\ paused_licenses = {LicenseRow(K1, "u1")}
    /\ license_admins = {}
    /\ clock = 1
    /\ InitFiles
    /\ tx = [p \in Procs |-> IdleCall]
    /\ last = NoCommand

NextFault ==
    \/ \E p \in Procs, impl \in {"bot", "server"}, v \in VehicleOptions :
          StartAdd(p, impl, K1, "Alice", v)
    \/ \E p \in Procs : BotAllAccessCheck(p)
    \/ \E p \in Procs : BotSpecificCheck(p)
    \/ \E p \in Procs : ServerExistingCheck(p)
    \/ \E p \in Procs : ServerDelete(p)
    \/ \E p \in Procs : InsertStep(p)
    \/ \E p \in Procs : CommitAdd(p)
    \/ \E p \in Procs : StartTransferTx(p, K1, "u2")
    \/ \E p \in Procs : TransferOwnerUpdate(p)
    \/ \E p \in Procs : TransferPauseUpdate(p)
    \/ \E p \in Procs : TransferCommit(p)
    \/ \E p \in Procs : StatementFault(p)

SpecFault == InitFault /\ [][NextFault]_vars

(***************************************************************************)
(* Storage faults in the lookups of the bot: pool.query raises and the     *)
(* catch block of the lookup returns its default                           *)
(***************************************************************************)
\* getUserLicense: `catch (error) { ...; return null; }`
GetUserLicenseOrFault(lics, userId) ==
    {[value |-> k, fault |-> FALSE] : k \in GetUserLicense(lics, userId)}
    \cup {[value |-> NoKey, fault |-> TRUE]}

\* isLicensePaused: `catch (error) { ...; return false; }`
IsLicensePausedOrFault(paused, licenseKey) ==
    {[value |-> IsLicensePaused(paused, licenseKey), fault |-> FALSE],
     [value |-> FALSE, fault |-> TRUE]}

\* case 'createlicense' of the bot owner, the lookup may raise
CreateLicenseUnderFault(targetUser) ==
    \E existingLicense \in GetUserLicenseOrFault(licenses, targetUser) :
       IF existingLicense.value # NoKey
       THEN /\ last' = [op |-> "createlicense", actor |-> BOT_OWNER_ID,
                        license |-> existingLicense.value, success |-> FALSE,
                        message |-> MsgAlreadyHasLicense, fault |-> existingLicense.fault]
            /\ UNCHANGED <<licenses, authorized_users, paused_licenses,
                           license_admins, clock, tx, files>>
       ELSE LET licenseKey == GenerateLicenseKey(targetUser, clock)
                r == CreateLicense(licenses, licenseKey, targetUser)
            IN  /\ licenses' = r.licenses
                /\ last' = [op |-> "createlicense", actor |-> BOT_OWNER_ID,
                            license |-> licenseKey, success |-> r.success,
                            message |-> IF r.success THEN "" ELSE MsgCreateFailed,
                            fault |-> existingLicense.fault]
                /\ UNCHANGED <<authorized_users, paused_licenses,
                               license_admins, clock, tx, files>>

\* case 'authorize' / 'deauthorize' of a license owner without the licensekey
\* option, the pause lookup may raise
GrantUnderFault(op, userId, username, vehicle) ==
    \E userLicense \in GetUserLicense(licenses, userId) :
    \E isPaused \in IsLicensePausedOrFault(paused_licenses, userLicense) :
       /\ userLicense # NoKey
       /\ LET r == IF op = "add"
                   THEN BotAddUserToLicense(licenses, authorized_users, userLicense,
                                            username, vehicle)
                   ELSE BotRemoveUserFromLicense(authorized_users, userLicense,
                                                 username, vehicle)
          IN  /\ authorized_users' = IF isPaused.value THEN authorized_users ELSE r.rows
              /\ last' = [op |-> op, actor |-> userId, license |-> userLicense,
                          success |-> ~isPaused.value /\ r.success,
                          message |-> IF isPaused.value THEN MsgPaused
                                      ELSE IF r.success THEN ""
                                      ELSE IF op = "add" THEN r.message ELSE MsgNotFound,
                          fault |-> isPaused.fault]
       /\ UNCHANGED <<licenses, paused_licenses, license_admins, clock, tx, files>>

\* u1 owns a paused license with a grant
InitLookupFault ==
    /\ licenses = {LicenseRow(K1, "u1")}
    /\ authorized_users = {AuthRow(K1, "Alice", ALL_VEHICLES)}
    /\ paused_licenses = {LicenseRow(K1, "u1")}
    /\ license_admins = {}
    /\ clock = 1
    /\ InitFiles
    /\ tx = Idle
    /\ last = NoCommand

NextLookupFault ==
    \/ \E u \in {"u1", "u2"} : CreateLicenseUnderFault(u)
    \/ \E op \in {"add", "remove"} : GrantUnderFault(op, "u1", "Bob", NULL)
    \/ UnpauseLicenseCommand(BOT_OWNER_ID, "u1")
    \/ PauseLicenseCommand(BOT_OWNER_ID, "u1")
    \/ Tick

SpecLookupFault == InitLookupFault /\ [][NextLookupFault]_vars

(***************************************************************************)
(* createlicense with its optional `licensekey` option                     *)
(***************************************************************************)
\* The values of the option: absent, or a custom key
DesiredKeys == {NoKey, <<"custom", 0>>}

\* The command is registered with the string option 'licensekey' ("Custom
\* license key (optional)"); case 'createlicense' reads only the option
\* 'user' and always builds the key from the user id and Date.now().
CreateLicenseInteraction(userId, targetUser, licensekey) ==
    /\ licensekey \in DesiredKeys
    /\ CreateLicenseCommand(userId, targetUser)

InitCreate ==
    /\ licenses = {}
    /\ authorized_users = {}
    /\ paused_licenses = {}
    /\ license_admins = {}
    /\ clock = 1
    /\ InitFiles
    /\ tx = Idle
    /\ last = NoCommand

NextCreate ==
    \/ \E u \in {BOT_OWNER_ID, "u1"}, t \in Members, k \in DesiredKeys :
          CreateLicenseInteraction(u, t, k)
    \/ \E from \in Members, to \in Members : TransferLicenseCommand(BOT_OWNER_ID, from, to)
    \/ \E k \in {l.license_key : l \in licenses} : DeleteLicenseCommand(BOT_OWNER_ID, k)
    \/ Tick

SpecCreate == InitCreate /\ [][NextCreate]_vars

(***************************************************************************)
(* Frame specification: u1 and u2 each own a license; each adds and        *)
(* removes the other as staff, both use the grant commands on their own    *)
(* license and on K1, and the bot owner pauses and unpauses the licenses   *)
(***************************************************************************)
NextFrame ==
    \/ \E a \in Members, u \in Members, r \in StaffRoles : AddStaffCommand(a, u, r)
    \/ \E a \in Members, u \in Members : RemoveStaffCommand(a, u)
    \/ \E a \in Members, k \in AccessKeyOptions, n \in LifeUsernames, v \in VehicleOptions :
          Authorize(a, k, n, v)
    \/ \E a \in Members, k \in AccessKeyOptions, n \in LifeUsernames, v \in VehicleOptions :
          Deauthorize(a, k, n, v)
    \/ \E u \in Members : PauseLicenseCommand(BOT_OWNER_ID, u)
    \/ \E u \in Members : UnpauseLicenseCommand(BOT_OWNER_ID, u)

SpecFrame == InitResolve /\ [][NextFrame]_vars

(***************************************************************************)
(* Staff specification: u1 owns a license; the bot owner, u1 and u2 use    *)
(* addstaff and removestaff, and the bot owner creates, transfers and      *)
(* deletes licenses                                                        *)
(***************************************************************************)
InitStaff ==
    /\ licenses = {LicenseRow(K1, "u1")}
    /\ authorized_users = {}
    /\ paused_licenses = {}
    /\ license_admins = {}
    /\ clock = 1
    /\ InitFiles
    /\ tx = Idle
    /\ last = NoCommand

NextStaff ==
    \/ \E a \in Users, u \in {BOT_OWNER_ID, "u2"}, r \in StaffRoles : AddStaffCommand(a, u, r)
    \/ \E a \in Users, u \in {BOT_OWNER_ID, "u2"} : RemoveStaffCommand(a, u)
    \/ CreateLicenseCommand(BOT_OWNER_ID, "u2")
    \/ \E u \in Members, v \in Members : TransferLicenseCommand(BOT_OWNER_ID, u, v)
    \/ \E k \in LifeKeys : DeleteLicenseCommand(BOT_OWNER_ID, k)

SpecStaff == InitStaff /\ [][NextStaff]_vars

(***************************************************************************)
(* Integrity specification: the license of u1 is deleted and created       *)
(* again, paused and unpaused, u2 is its staff, and grants are added by    *)
(* chat command and by the admin endpoint under K1 and under K2, a key     *)
(* that no license ever has                                                *)
(***************************************************************************)
NextIntegrity ==
    \/ CreateLicenseCommand(BOT_OWNER_ID, "u1")
    \/ DeleteLicenseCommand(BOT_OWNER_ID, K1)
    \/ PauseLicenseCommand(BOT_OWNER_ID, "u1")
    \/ UnpauseLicenseCommand(BOT_OWNER_ID, "u1")
    \/ \E r \in StaffRoles : AddStaffCommand("u1", "u2", r)
    \/ \E a \in Members, k \in LifeKeys \cup {NoKey}, n \in LifeUsernames :
          Authorize(a, k, n, NULL)
    \/ \E k \in LifeKeys, n \in LifeUsernames, v \in VehicleOptions :
          AdminAddUserLicense(ADMIN_KEY, k, n, v)

SpecIntegrity == InitStaff /\ [][NextIntegrity]_vars

(***************************************************************************)
(* Claims about the grant store                                            *)
(***************************************************************************)
HasWildcard(rows, licenseKey, username) ==
    SelectAuth(rows, licenseKey, username, ALL_VEHICLES) # {}

ConcreteRows(rows, licenseKey, username) ==
    {r \in SelectAuthUser(rows, licenseKey, username) : r.vehicle # ALL_VEHICLES}

\* The step is a call of the grant store's add / remove (either implementation)
AddCalled == last'.op = "add" /\ last'.called
RemoveCalled == last'.op = "remove" /\ last'.called

\* C1: no (license, subject) pair holds both the wildcard grant and a
\* concrete-scope grant, in any state reached by grant store adds and removes.
C1_NoWildcardWithConcrete ==
    \A k \in LicenseKeys, n \in Usernames :
        ~(HasWildcard(authorized_users, k, n) /\ ConcreteRows(authorized_users, k, n) # {})

\* C2: an add of the wildcard for a subject holding concrete grants and no
\* wildcard succeeds (forAllVehicles on the chat path) and leaves the
\* wildcard row as the subject's only row.
C2_WildcardAddSupersedes ==
    [][(/\ AddCalled
        /\ last'.vehicle = NULL
        /\ ConcreteRows(authorized_users, last'.license, last'.username) # {}
        /\ ~HasWildcard(authorized_users, last'.license, last'.username))
       => (/\ last'.success
           /\ (last'.via = "chat" => last'.forAllVehicles)
           /\ SelectAuthUser(authorized_users', last'.license, last'.username)
                = {AuthRow(last'.license, last'.username, ALL_VEHICLES)})]_vars

\* C3: an add of the wildcard for a subject that already holds the wildcard
\* fails and leaves the grants unchanged.
C3_WildcardRepeatRejected ==
    [][(/\ AddCalled
        /\ last'.vehicle = NULL
        /\ HasWildcard(authorized_users, last'.license, last'.username))
       => (/\ ~last'.success
           /\ authorized_users' = authorized_users)]_vars

C3_Witness ==
    /\ last.op = "add" /\ last.called /\ last.vehicle = NULL /\ ~last.success
    /\ HasWildcard(authorized_users, last.license, last.username)

\* C4: an add of a concrete scope for a subject that holds the wildcard is
\* rejected and leaves the grants unchanged.
C4_ConcreteUnderWildcardRejected ==
    [][(/\ AddCalled
        /\ last'.vehicle # NULL
        /\ HasWildcard(authorized_users, last'.license, last'.username))
       => (/\ ~last'.success
           /\ authorized_users' = authorized_users)]_vars

\* C5: an add of a concrete scope the subject already holds (and no wildcard)
\* is rejected and leaves the grants unchanged; the bot answers it with the
\* already-has-this-vehicle message, which is not the already-all message.
C5_DuplicateScopeRejected ==
    [][(/\ AddCalled
        /\ last'.vehicle # NULL
        /\ SelectAuth(authorized_users, last'.license, last'.username, last'.vehicle) # {}
        /\ ~HasWildcard(authorized_users, last'.license, last'.username))
       => (/\ ~last'.success
           /\ authorized_users' = authorized_users
           /\ (last'.via = "chat" =>
                  /\ last'.message = MsgAlreadyVehicle
                  /\ last'.message # MsgAlreadyAll))]_vars

C5_Witness ==
    /\ last.op = "add" /\ last.called /\ last.via = "chat" /\ last.vehicle # NULL
    /\ ~last.success /\ last.message = MsgAlreadyVehicle
    /\ SelectAuth(authorized_users, last.license, last.username, last.vehicle) # {}
    /\ ~HasWildcard(authorized_users, last.license, last.username)

\* C6: a remove without a scope deletes every row of the subject under the
\* license and nothing else; it succeeds exactly when the subject had a row.
C6_RemoveAll ==
    [][(RemoveCalled /\ last'.vehicle = NULL)
       => LET had == SelectAuthUser(authorized_users, last'.license, last'.username)
          IN  /\ last'.success = (had # {})
              /\ authorized_users' = authorized_users \ had
              /\ SelectAuthUser(authorized_users', last'.license, last'.username) = {}]_vars

C6_Witness ==
    /\ last.op = "remove" /\ last.called /\ last.vehicle = NULL /\ last.success
    /\ SelectAuthUser(authorized_users, last.license, last.username) = {}
    /\ authorized_users # {}

\* C7: a remove with a scope deletes exactly the (license, subject, scope)
\* row and nothing else; it succeeds exactly when that row existed.
C7_RemoveScoped ==
    [][(RemoveCalled /\ last'.vehicle # NULL)
       => LET row == AuthRow(last'.license, last'.username, last'.vehicle)
          IN  /\ last'.success = (row \in authorized_users)
              /\ authorized_users' = authorized_users \ {row}]_vars

C7_Witness ==
    /\ last.op = "remove" /\ last.called /\ last.vehicle # NULL /\ last.success
    /\ HasWildcard(authorized_users, last.license, last.username)
    /\ \E r \in authorized_users : r.license_key # last.license
    /\ \E r \in authorized_users :
          r.license_key = last.license /\ r.username # last.username

(***************************************************************************)
(* Claims about the license registry                                       *)
(***************************************************************************)
LicensesOf(lics, userId) == {l \in lics : l.owner_id = userId}

OneLicensePerOwner == \A u \in Users : Cardinality(LicensesOf(licenses, u)) <= 1

\* C9: commands run one at a time never leave an owner with two licenses,
\* and a createlicense for an owner who has a license is rejected with the
\* already-has-a-license answer and changes no table.
C9_OneLicensePerOwner ==
    /\ []OneLicensePerOwner
    /\ [][(/\ last'.op = "createlicense"
           /\ last'.actor = BOT_OWNER_ID
           /\ LicensesOf(licenses, last'.target) # {})
          => (/\ ~last'.success
              /\ last'.message = MsgAlreadyHasLicense
              /\ licenses' = licenses)]_vars

C9_Witness ==
    /\ last.op = "createlicense" /\ ~last.success
    /\ last.message = MsgAlreadyHasLicense
    /\ \E l \in licenses : l.owner_id = last.target /\ l.license_key[1] # last.target
    /\ Cardinality(licenses) >= 2

(***************************************************************************)
(* Claims about interleaved commands                                       *)
(***************************************************************************)
\* C8: whatever the interleaving of a wildcard add and a concrete add for
\* the same (license, subject), the committed rows never hold both the
\* wildcard row and a concrete row of that subject.
C8_RaceNeverBoth ==
    \A p \in DOMAIN tx, q \in DOMAIN tx :
        (/\ tx[p].result = "success" /\ tx[p].vehicle = NULL
         /\ tx[q].result = "success" /\ tx[q].vehicle # NULL
         /\ tx[q].license = tx[p].license /\ tx[q].username = tx[p].username)
        => ~(/\ HasWildcard(authorized_users, tx[p].license, tx[p].username)
             /\ ConcreteRows(authorized_users, tx[p].license, tx[p].username) # {})

\* C10: whatever the interleaving of createlicense and transferlicense
\* commands, no owner identity ever owns two licenses.
C10_RaceOneLicensePerOwner ==
    \A l1 \in licenses, l2 \in licenses :
        l1.owner_id = l2.owner_id => l1.license_key = l2.license_key

(***************************************************************************)
(* Claims about transferlicense                                            *)
(***************************************************************************)
\* The rows of a table that belong to the license
RowsOf(rows, licenseKey) == {r \in rows : r.license_key = licenseKey}

TransferBy(actor) == last'.op = "transferlicense" /\ last'.actor = actor

\* C11: a transfer from A to B by the bot owner fails and leaves licenses,
\* grants, staff rows and pause markers unchanged whenever A owns no license,
\* B already owns a license, or A = B.
C11_TransferRejected ==
    [][(/\ TransferBy(BOT_OWNER_ID)
        /\ \/ GetUserLicense(licenses, last'.target) = {NoKey}
           \/ GetUserLicense(licenses, last'.other) # {NoKey}
           \/ last'.target = last'.other)
       => (/\ ~last'.success
           /\ UNCHANGED <<licenses, authorized_users, license_admins,
                          paused_licenses>>)]_vars

C11_Witness ==
    /\ last.op = "transferlicense" /\ last.actor = BOT_OWNER_ID
    /\ ~last.success /\ last.message = MsgAlreadyHasLicense
    /\ GetUserLicense(licenses, last.target) # {NoKey}
    /\ authorized_users # {} /\ license_admins # {} /\ paused_licenses # {}

\* C12: after a successful transfer from A to B, the license B owns is the
\* license A owned (same key), A owns none, and the grant rows and staff
\* rows of that license are exactly those from before the transfer.
C12_TransferMovesLicense ==
    [][(last'.op = "transferlicense" /\ last'.success)
       => (/\ last'.license \in GetUserLicense(licenses, last'.target)
           /\ GetUserLicense(licenses', last'.other) = {last'.license}
           /\ GetUserLicense(licenses', last'.target) = {NoKey}
           /\ RowsOf(authorized_users', last'.license)
                = RowsOf(authorized_users, last'.license)
           /\ RowsOf(license_admins', last'.license)
                = RowsOf(license_admins, last'.license))]_vars

C12_Witness ==
    /\ last.op = "transferlicense" /\ last.success
    /\ GetUserLicense(licenses, last.other) = {last.license}
    /\ RowsOf(authorized_users, last.license) # {}
    /\ RowsOf(license_admins, last.license) # {}

(***************************************************************************)
(* Claims about access: pause and roles                                    *)
(***************************************************************************)
PauseMarker(licenseKey) == \E p \in paused_licenses : p.license_key = licenseKey

OwnerOf(userId, licenseKey) ==
    \E l \in licenses : l.license_key = licenseKey /\ l.owner_id = userId

StaffWithRole(userId, licenseKey, roleType) ==
    \E a \in license_admins :
        a.license_key = licenseKey /\ a.user_id = userId /\ a.role_type = roleType

\* The actor may add to the license: its owner or any of its staff
MayAdd(userId, licenseKey) ==
    \/ OwnerOf(userId, licenseKey)
    \/ StaffWithRole(userId, licenseKey, ROLE_ADMIN)
    \/ StaffWithRole(userId, licenseKey, ROLE_HELPER)

\* The actor may remove from the license: its owner or an admin
MayRemove(userId, licenseKey) ==
    \/ OwnerOf(userId, licenseKey)
    \/ StaffWithRole(userId, licenseKey, ROLE_ADMIN)

ChatGrantCommand(op) == last'.op = op /\ last'.via = "chat"

\* C13: while a license is paused, an authorize or deauthorize command of an
\* actor permitted on it is rejected with the paused reply and leaves the
\* grants unchanged, while the authorized command of such an actor still
\* lists the grants of the license and the check endpoint still answers
\* from them.
C13_PausedBlocksWritesNotReads ==
    [][/\ (/\ \/ ChatGrantCommand("add") /\ MayAdd(last'.actor, last'.license)
              \/ ChatGrantCommand("remove") /\ MayRemove(last'.actor, last'.license)
           /\ PauseMarker(last'.license))
          => (/\ ~last'.called
              /\ last'.message = MsgPaused
              /\ authorized_users' = authorized_users)
       /\ (/\ last'.op = "list"
           /\ MayAdd(last'.actor, last'.license)
           /\ PauseMarker(last'.license))
          => (/\ last'.called
              /\ last'.paused
              /\ last'.users = {[username |-> r.username, vehicle |-> r.vehicle] :
                                   r \in RowsOf(authorized_users, last'.license)})
       /\ (last'.op = "check" /\ PauseMarker(last'.license))
          => (last'.approved
                <=> \E r \in authorized_users :
                        r.license_key = last'.license /\ r.username = last'.username)
      ]_vars

C13_Witness ==
    /\ last.op \in {"add", "remove"} /\ last.via = "chat"
    /\ last.message = MsgPaused
    /\ PauseMarker(last.license)
    /\ RowsOf(authorized_users, last.license) # {}

\* C14: on a license that is not paused, a helper's authorize reaches the
\* grant store, every deauthorize of a helper (with or without the license
\* key option) is refused with the helpers-cannot-remove reply and leaves the
\* grants unchanged, and the authorize and deauthorize of an admin and of the
\* owner both reach the grant store.
C14_HelperAddsOnly ==
    [][(/\ ChatGrantCommand("add") \/ ChatGrantCommand("remove")
        /\ ~PauseMarker(last'.license))
       => /\ (last'.op = "add" /\ MayAdd(last'.actor, last'.license))
             => last'.called
          /\ (/\ last'.op = "remove"
              /\ StaffWithRole(last'.actor, last'.license, ROLE_HELPER)
              /\ ~OwnerOf(last'.actor, last'.license))
             => (/\ ~last'.called
                 /\ last'.message = MsgHelperOnly
                 /\ authorized_users' = authorized_users)
          /\ (last'.op = "remove" /\ MayRemove(last'.actor, last'.license))
             => last'.called
      ]_vars

C14_Witness ==
    /\ last.op = "remove" /\ last.via = "chat"
    /\ StaffWithRole(last.actor, last.license, ROLE_HELPER)
    /\ ~PauseMarker(last.license)
    /\ last.message = MsgHelperOnly
    /\ RowsOf(authorized_users, last.license) # {}

(***************************************************************************)
(* Claims about the staff directory and license deletion                   *)
(***************************************************************************)
\* C15: addstaff naming the current owner of the license as the new staff
\* member is rejected and leaves the staff directory unchanged.
C15_OwnerNotAddedAsStaff ==
    [][(/\ last'.op = "addstaff"
        /\ last'.license # NoKey
        /\ OwnerOf(last'.target, last'.license))
       => (/\ ~last'.success
           /\ license_admins' = license_admins)]_vars

C15_Witness ==
    /\ last.op = "addstaff" /\ last.license # NoKey
    /\ OwnerOf(last.target, last.license)
    /\ ~last.success /\ last.message = MsgOwnerAsStaff

\* C16: in every state reached by createlicense, addstaff, removestaff,
\* transferlicense and deletelicense, no license has its owner among its
\* own staff.
C16_OwnerNeverStaff ==
    \A l \in licenses :
        ~\E a \in license_admins :
            a.license_key = l.license_key /\ a.user_id = l.owner_id

\* C17: after a license is deleted, no license, grant row, staff row or
\* pause marker with its key remains, and the check endpoint's function
\* answers false for every subject that held a grant under it.
C17_DeleteCascades ==
    [][(last'.op = "deletelicense" /\ last'.success)
       => (/\ RowsOf(licenses', last'.license) = {}
           /\ RowsOf(authorized_users', last'.license) = {}
           /\ RowsOf(license_admins', last'.license) = {}
           /\ RowsOf(paused_licenses', last'.license) = {}
           /\ \A r \in RowsOf(authorized_users, last'.license) :
                 ~CheckUserLicense(authorized_users', last'.license, r.username))]_vars

C17_Witness ==
    /\ last.op = "deletelicense" /\ last.success
    /\ ~LicenseExists(licenses, last.license)
    /\ RowsOf(authorized_users, last.license) = {}
    /\ licenses # {} /\ authorized_users # {} /\ license_admins # {}

\* C18: deletelicense with a key that names no license answers that the key
\* was not found and leaves every license, grant row, staff row and pause
\* marker unchanged.
C18_DeleteUnknownKey ==
    [][(/\ last'.op = "deletelicense"
        /\ last'.actor = BOT_OWNER_ID
        /\ RowsOf(licenses, last'.license) = {})
       => (/\ ~last'.success
           /\ last'.message = MsgKeyNotFound
           /\ UNCHANGED <<licenses, authorized_users, license_admins,
                          paused_licenses>>)]_vars

C18_Witness ==
    /\ last.op = "deletelicense" /\ last.actor = BOT_OWNER_ID
    /\ ~last.success /\ last.message = MsgKeyNotFound
    /\ licenses # {} /\ authorized_users # {} /\ license_admins # {}

(***************************************************************************)
(* Claims about the check endpoint                                         *)
(***************************************************************************)
\* C19: the check endpoint answers approved = true exactly when a grant row
\* (wildcard or concrete) exists for the license and subject; so the check
\* function is true right after a successful authorize of the subject and
\* false right after a successful deauthorize of the subject with no vehicle.
C19_CheckReflectsGrants ==
    [][/\ last'.op = "check"
          => (last'.approved
                <=> \E r \in authorized_users :
                        r.license_key = last'.license /\ r.username = last'.username)
       /\ (ChatGrantCommand("add") /\ last'.success)
          => CheckUserLicense(authorized_users', last'.license, last'.username)
       /\ (ChatGrantCommand("remove") /\ last'.success /\ last'.vehicle = NULL)
          => ~CheckUserLicense(authorized_users', last'.license, last'.username)
      ]_vars

C19_Witness ==
    /\ last.op = "check" /\ last.approved
    /\ OwnerOf(AccessOwner, last.license)
    /\ AuthRow(last.license, last.username, ALL_VEHICLES) \in authorized_users

(***************************************************************************)
(* Claims about pause and unpause                                          *)
(***************************************************************************)
RegistryUnchanged ==
    UNCHANGED <<licenses, authorized_users, license_admins, paused_licenses>>

\* C20: pauselicense fails without changing the state when the user has no
\* license or the license is already paused, and otherwise adds its pause
\* marker; unpauselicense fails without changing the state when the license
\* is not paused (or absent), and otherwise deletes the marker; a license
\* reads as paused exactly when its pause marker exists.
C20_PauseUnpause ==
    /\ [](\A k \in LicenseKeys : IsLicensePaused(paused_licenses, k) <=> PauseMarker(k))
    /\ [][/\ (last'.op = "pauselicense" /\ last'.actor = BOT_OWNER_ID)
             => IF GetUserLicense(licenses, last'.target) = {NoKey}
                THEN ~last'.success /\ RegistryUnchanged
                ELSE IF PauseMarker(last'.license)
                THEN /\ ~last'.success
                     /\ last'.message = MsgAlreadyPaused
                     /\ RegistryUnchanged
                ELSE /\ last'.success
                     /\ paused_licenses' =
                          paused_licenses \cup {LicenseRow(last'.license, last'.target)}
                     /\ UNCHANGED <<licenses, authorized_users, license_admins>>
          /\ (last'.op = "unpauselicense" /\ last'.actor = BOT_OWNER_ID)
             => IF \/ GetUserLicense(licenses, last'.target) = {NoKey}
                   \/ ~PauseMarker(last'.license)
                THEN ~last'.success /\ RegistryUnchanged
                ELSE /\ last'.success
                     /\ paused_licenses' = paused_licenses \ RowsOf(paused_licenses, last'.license)
                     /\ \A p \in paused_licenses' : p.license_key # last'.license
                     /\ UNCHANGED <<licenses, authorized_users, license_admins>>
         ]_vars

C20_Witness ==
    /\ last.op = "pauselicense" /\ last.actor = BOT_OWNER_ID
    /\ ~last.success /\ last.message = MsgAlreadyPaused
    /\ PauseMarker(last.license)

(***************************************************************************)
(* Claims about the resolution of the target license                       *)
(***************************************************************************)
\* The licenses the actor owns, and those the actor is staff of
Owned(userId) == {l.license_key : l \in {x \in licenses : x.owner_id = userId}}

Staffed(userId) ==
    {s.license_key : s \in {x \in license_admins :
        x.user_id = userId /\ LicenseExists(licenses, x.license_key)}}

\* The command was refused before any license was picked
RefusedUnresolved(messages) ==
    /\ ~last'.called
    /\ last'.license = NoKey
    /\ last'.message \in messages
    /\ RegistryUnchanged

\* The target of a command given without the license key option
DefaultTarget(userId) ==
    IF Owned(userId) # {}
    THEN last'.license \in Owned(userId)
    ELSE IF Staffed(userId) = {}
    THEN RefusedUnresolved({MsgNoLicenseOrStaff})
    ELSE IF Cardinality(Staffed(userId)) = 1
    THEN last'.license \in Staffed(userId)
    ELSE RefusedUnresolved({MsgMultipleStaff, MsgMultipleStaffView})

\* C21: without the license key option, authorize, deauthorize and
\* authorized work on the actor's own license when the actor owns one;
\* otherwise an actor who is staff of no license gets the
\* no-license-or-staff reply, staff of exactly one license works on it, and
\* staff of several gets the multiple-licenses reply, with no license picked
\* and no state changed.
C21_DefaultLicenseResolution ==
    [][\A a \in ResolveActors :
          /\ \A n \in LifeUsernames, v \in VehicleOptions :
                (Authorize(a, NoKey, n, v) \/ Deauthorize(a, NoKey, n, v))
                   => DefaultTarget(a)
          /\ AuthorizedCommand(a, NoKey) => DefaultTarget(a)
      ]_vars

C21_Witness ==
    /\ last.op \in {"add", "remove", "list"}
    /\ last.message \in {MsgMultipleStaff, MsgMultipleStaffView}
    /\ last.license = NoKey
    /\ Owned(last.actor) = {}
    /\ Cardinality(Staffed(last.actor)) = 2

\* The command was refused for the named license
RefusedFor(licenseKey, messages) ==
    /\ ~last'.called
    /\ last'.license = licenseKey
    /\ last'.message \in messages
    /\ RegistryUnchanged

\* C22: with the license key option, the command works on that license and
\* reaches the grant store (or lists the grants) only if the actor owns the
\* license or is staff of it, as an admin for deauthorize; otherwise it is
\* refused with a no-permission reply and nothing changes, also when the
\* actor owns or is staff of another license.
C22_SpecifiedLicensePermission ==
    [][\A a \in ResolveActors, k \in LicenseKeys :
          /\ \A n \in LifeUsernames, v \in VehicleOptions :
                /\ Authorize(a, k, n, v)
                      => IF MayAdd(a, k)
                         THEN last'.license = k /\ (last'.called \/ PauseMarker(k))
                         ELSE RefusedFor(k, {MsgNoPermission})
                /\ Deauthorize(a, k, n, v)
                      => IF MayRemove(a, k)
                         THEN last'.license = k /\ (last'.called \/ PauseMarker(k))
                         ELSE RefusedFor(k, {MsgNoPermission, MsgHelperOnly})
          /\ AuthorizedCommand(a, k)
                => IF MayAdd(a, k)
                   THEN last'.license = k /\ last'.called
                   ELSE RefusedFor(k, {MsgNoViewPermission})
      ]_vars

C22_Witness ==
    /\ last.op \in {"add", "remove", "list"}
    /\ ~last.called
    /\ last.license = K2
    /\ last.message \in {MsgNoPermission, MsgNoViewPermission}
    /\ ~MayAdd(last.actor, K2)
    /\ Owned(last.actor) \cup Staffed(last.actor) # {}

(***************************************************************************)
(* Claims about the bot owner                                              *)
(***************************************************************************)
LifecycleOps ==
    {"createlicense", "deletelicense", "pauselicense", "unpauselicense",
     "transferlicense"}

\* C23: createlicense, deletelicense, pauselicense, unpauselicense and
\* transferlicense of an actor who is not the bot owner are rejected with
\* the bot-owner-only reply and leave licenses, grants, staff rows and pause
\* markers unchanged, also when the actor owns the license concerned.
C23_OnlyBotOwnerLifecycle ==
    [][(last'.op \in LifecycleOps /\ last'.actor # BOT_OWNER_ID)
       => (/\ ~last'.success
           /\ last'.message = MsgOwnerOnly
           /\ RegistryUnchanged)]_vars

C23_Witness ==
    /\ last.op \in {"deletelicense", "pauselicense"}
    /\ last.actor # BOT_OWNER_ID
    /\ ~last.success
    /\ \/ last.op = "deletelicense" /\ OwnerOf(last.actor, last.license)
       \/ last.op = "pauselicense" /\ last.target = last.actor
                                   /\ Owned(last.actor) # {}

\* C24: an authorize, deauthorize or authorized command of the bot owner
\* that names or resolves to a license the bot owner neither owns nor is
\* staff of is refused and leaves the grants unchanged.
C24_BotOwnerNotImplicitManager ==
    [][(/\ ChatGrantCommand("add") \/ ChatGrantCommand("remove") \/ last'.op = "list"
        /\ last'.actor = BOT_OWNER_ID
        /\ ~MayAdd(BOT_OWNER_ID, last'.license))
       => (/\ ~last'.called
           /\ last'.message # ""
           /\ authorized_users' = authorized_users)]_vars

C24_Witness ==
    /\ last.op \in {"add", "remove", "list"}
    /\ last.actor = BOT_OWNER_ID
    /\ LicenseExists(licenses, last.license)
    /\ ~MayAdd(BOT_OWNER_ID, last.license)
    /\ ~last.called
    /\ RowsOf(authorized_users, last.license) # {}

(***************************************************************************)
(* Claims about the approval check                                         *)
(***************************************************************************)
\* C25: a check of either server changes no license, grant, staff row,
\* pause marker or file, and it answers approved = FALSE both for a license
\* that does not exist (no row, no license file) and for one that has no
\* grants (no grant rows, a file without user lines).
C25_CheckReadsOnly ==
    [][/\ last'.op \in {"check", "check-file"}
          => /\ RegistryUnchanged
             /\ UNCHANGED files
             /\ last'.approved \in BOOLEAN
       /\ last'.op = "check"
          => ((\/ ~LicenseExists(licenses, last'.license)
               \/ RowsOf(authorized_users, last'.license) = {})
              => last'.approved = FALSE)
       /\ last'.op = "check-file"
          => LET licenseFile == SanitizeLicenseKey(last'.license)
             IN  ((\/ licenseFile \notin DOMAIN licenses_dir
                   \/ ParseUsers(licenses_dir[licenseFile]) = <<>>)
                  => last'.approved = FALSE)]_vars

C25_Witness ==
    \/ /\ last.op = "check"
       /\ ~LicenseExists(licenses, last.license)
       /\ licenses # {}
       /\ last.approved = FALSE
    \/ /\ last.op = "check-file"
       /\ SanitizeLicenseKey(last.license) \notin DOMAIN licenses_dir
       /\ licenses_dir # EmptyLicensesDir
       /\ last.approved = FALSE

\* C26 as stated: the check endpoint does not report a grant of a paused
\* license as approved.
C26_PausedNotApproved ==
    [][(last'.op = "check" /\ PauseMarker(last'.license)) => ~last'.approved]_vars

\* C26 amended: the answer of the check endpoint does not depend on the
\* pause marker; for a paused license it is approved exactly when the
\* license has a grant row of the subject.
C26_CheckIgnoresPause ==
    [][(last'.op = "check" /\ PauseMarker(last'.license))
       => (last'.approved
             <=> \E r \in RowsOf(authorized_users, last'.license) :
                     r.username = last'.username)]_vars

C26_Witness ==
    /\ last.op = "check"
    /\ PauseMarker(last.license)
    /\ last.approved

(***************************************************************************)
(* Claims about the flat approved list of the file-backed server           *)
(***************************************************************************)
\* The subjects the check endpoint approves
Approved(file) == {s \in FileUsernames : Includes(GetApprovedUsers(file), s)}

AdminRequest(op) == last'.op = op /\ last'.authorized /\ last'.username # <<>>

\* C27: the approved subjects are exactly those added and not removed since:
\* an add of a subject that is not approved succeeds and makes exactly that
\* subject approved in addition, an add of an approved subject returns false
\* and leaves the file unchanged, a remove of an approved subject succeeds
\* and takes exactly that subject away, and a remove of a subject that is
\* not approved returns false and leaves the file unchanged.
C27_FlatListIsSet ==
    [][/\ AdminRequest("add-user")
          => IF last'.username \in Approved(approved_users_file)
             THEN ~last'.success /\ UNCHANGED approved_users_file
             ELSE /\ last'.success
                  /\ Approved(approved_users_file')
                        = Approved(approved_users_file) \cup {last'.username}
       /\ AdminRequest("remove-user")
          => IF last'.username \in Approved(approved_users_file)
             THEN /\ last'.success
                  /\ Approved(approved_users_file')
                        = Approved(approved_users_file) \ {last'.username}
             ELSE ~last'.success /\ UNCHANGED approved_users_file
       /\ last'.op = "check-user"
          => (last'.approved <=> last'.username \in Approved(approved_users_file))
      ]_vars

(***************************************************************************)
(* Claims about grants of a paused license                                 *)
(***************************************************************************)
\* C28: while a license has a pause marker, no request other than its
\* unpause or deletion changes the grant rows of the license, whether it
\* comes from a chat command or from an admin HTTP endpoint.
C28_PausedGrantsFrozen ==
    [][\A k \in LicenseKeys :
          (PauseMarker(k) /\ last'.op \notin {"unpauselicense", "deletelicense"})
          => RowsOf(authorized_users', k) = RowsOf(authorized_users, k)]_vars

\* C29: a grant command whose store call commits while the license has a
\* pause marker, because the pause committed after the command's own pause
\* check, inserts or deletes no grant row.
C29_PauseCheckAtomicWithStore ==
    [][\A p \in Procs :
          (/\ tx[p].pc = "store"
           /\ tx'[p].pc = "done"
           /\ PauseMarker(tx[p].license))
          => authorized_users' = authorized_users]_vars

(***************************************************************************)
(* Claims about the pause record under transferlicense                     *)
(***************************************************************************)
\* C30: every pause record names the current owner of its license, and a
\* successful transferlicense of a paused license leaves the license paused
\* with the new owner in its pause record.
C30_PauseRecordFollowsOwner ==
    /\ [](\A p \in paused_licenses : OwnerOf(p.owner_id, p.license_key))
    /\ [][(/\ last'.op = "transferlicense"
           /\ last'.success
           /\ PauseMarker(last'.license))
          => /\ \E p \in paused_licenses' :
                   p.license_key = last'.license /\ p.owner_id = last'.other
             /\ {p.license_key : p \in paused_licenses'}
                   = {p.license_key : p \in paused_licenses}]_vars

C30_Witness ==
    /\ last.op = "transferlicense"
    /\ last.success
    /\ \E p \in paused_licenses :
          p.license_key = last.license /\ p.owner_id = last.other
    /\ OwnerOf(last.other, last.license)

(***************************************************************************)
(* Claims about staff rows                                                 *)
(***************************************************************************)
\* C31: no user has two staff rows of one license; addstaff of a user who
\* is already staff of the owner's license fails, whatever the role, and
\* leaves the staff rows unchanged; removestaff of a user who is not staff
\* of the owner's license fails and changes nothing.
C31_OneRolePerLicense ==
    /\ [](\A a \in license_admins, b \in license_admins :
             (a.license_key = b.license_key /\ a.user_id = b.user_id) => a = b)
    /\ [][/\ (/\ last'.op = "addstaff"
              /\ SelectStaff(license_admins, last'.license, last'.target) # {})
             => (~last'.success /\ RegistryUnchanged)
          /\ (/\ last'.op = "removestaff"
              /\ SelectStaff(license_admins, last'.license, last'.target) = {})
             => (~last'.success /\ RegistryUnchanged)]_vars

C31_Witness ==
    /\ last.op = "addstaff"
    /\ ~last.success
    /\ \E a \in license_admins :
          /\ a.license_key = last.license
          /\ a.user_id = last.target
          /\ a.role_type # last.other

(***************************************************************************)
(* Claims about the admin endpoints                                        *)
(***************************************************************************)
\* C32: whenever an add reaches the grant store, through the chat command
\* or through the admin endpoint, the addUserToLicense of the bot and the
\* addUserToLicense of the server give the same success answer and the same
\* grant rows for that input in that store state.
C32_AddsAgree ==
    [][(last'.op = "add" /\ last'.called)
       => LET bot == BotAddUserToLicense(licenses, authorized_users, last'.license,
                                         last'.username, last'.vehicle)
              server == ServerAddUserToLicense(licenses, authorized_users, last'.license,
                                               last'.username, last'.vehicle)
          IN  bot.success = server.success /\ bot.rows = server.rows]_vars

\* The request was answered Unauthorized and nothing changed
Unauthorized(answered) == answered /\ RegistryUnchanged /\ UNCHANGED files

\* C33: an admin request of either server whose adminKey is not the
\* configured key is answered Unauthorized before any store call, changes no
\* grant and no file, and carries no list of users.
C33_WrongAdminKeyRefused ==
    [][\A a \in AdminKeys \ {ADMIN_KEY} :
          /\ \A n \in LifeUsernames, v \in VehicleOptions :
                /\ AdminAddUserLicense(a, K1, n, v)
                      => Unauthorized(~last'.called /\ last'.message = MsgUnauthorized)
                /\ AdminRemoveUserLicense(a, K1, n, v)
                      => Unauthorized(~last'.called /\ last'.message = MsgUnauthorized)
          /\ AdminLicenseUsers(a, K1)
                => Unauthorized(~last'.authorized /\ last'.users = NULL)
          /\ \A n \in AdminUsernames :
                /\ AdminAddUser(a, n) => Unauthorized(~last'.authorized /\ ~last'.success)
                /\ AdminRemoveUser(a, n) => Unauthorized(~last'.authorized /\ ~last'.success)
          /\ AdminUsers(a) => Unauthorized(~last'.authorized /\ last'.users = NULL)
          /\ \A k \in AdminFileKeys :
                FileAdminLicenseUsers(a, k)
                   => Unauthorized(~last'.authorized /\ last'.users = NULL)]_vars

C33_Witness ==
    /\ last.op \in {"add", "remove", "license-users"}
    /\ last.actor # ADMIN_KEY
    /\ RowsOf(authorized_users, K1) # {}
    /\ Approved(approved_users_file) # {}

(***************************************************************************)
(* Claims about interleaved calls on the approved list                     *)
(***************************************************************************)
\* The file after the call runs alone
Serial(call, file) ==
    IF call.op = "add" THEN AddApprovedUser(file, call.username).file
    ELSE RemoveApprovedUser(file, call.username).file

\* C34: when two interleaved addApprovedUser / removeApprovedUser calls have
\* completed, the approved list is the list that the two calls leave when
\* run one after the other in one of the two orders.
C34_FileWritesSerialized ==
    (\A p \in Procs : tx[p].pc = "done")
    => GetApprovedUsers(approved_users_file)
          \in {GetApprovedUsers(Serial(tx[2], Serial(tx[1], RaceStartFile))),
               GetApprovedUsers(Serial(tx[1], Serial(tx[2], RaceStartFile)))}

(***************************************************************************)
(* Claims about storage faults                                             *)
(***************************************************************************)
\* C35: a store call that ends in failure, whichever of its statements
\* raised, leaves every table as it was; the tables change only in the step
\* in which a call commits successfully.
C35_FailureLeavesStoreUnchanged ==
    [][/\ \A p \in Procs :
             (tx[p].pc \in OpenPcs /\ tx'[p].pc = "done" /\ tx'[p].result # "success")
             => RegistryUnchanged
       /\ ~RegistryUnchanged
             => \E p \in Procs : /\ tx[p].pc \in {"commit", "commitTransfer"}
                                 /\ tx'[p].result = "success"]_vars

C35_Witness ==
    \E p \in Procs :
       /\ tx[p].pc = "done"
       /\ tx[p].impl = "server"
       /\ tx[p].vehicle = NULL
       /\ tx[p].result = MsgExistsOrError
       /\ AuthRow(K1, "Alice", CarNames[1]) \in authorized_users
       /\ AuthRow(K1, "Alice", ALL_VEHICLES) \notin authorized_users

\* C36: a command during which a lookup raised a storage fault ends in
\* failure and changes no table; so no owner gets a second license and no
\* grant of a paused license is added or removed through a fault.
C36_FaultsSurfaceAsFailure ==
    [][(last'.op \in {"createlicense", "add", "remove"} /\ last'.fault)
       => (~last'.success /\ RegistryUnchanged)]_vars

(***************************************************************************)
(* Claims about the key of a new license                                   *)
(***************************************************************************)
\* C37: a successful createlicense adds exactly one license; its key is the
\* desired key when the option was given, and in every case a key that no
\* license had before.
C37_KeyOfNewLicense ==
    [][\A t \in Members, k \in DesiredKeys :
          (CreateLicenseInteraction(BOT_OWNER_ID, t, k) /\ last'.success)
          => LET created == licenses' \ licenses
             IN  /\ Cardinality(created) = 1
                 /\ \A l \in created :
                       /\ k # NoKey => l.license_key = k
                       /\ ~LicenseExists(licenses, l.license_key)]_vars

\* The part about generated keys alone: the key of the new license is new
C37_GeneratedKeyIsNew ==
    [][\A t \in Members :
          (CreateLicenseInteraction(BOT_OWNER_ID, t, NoKey) /\ last'.success)
          => LET created == licenses' \ licenses
             IN  /\ Cardinality(created) = 1
                 /\ \A l \in created : ~LicenseExists(licenses, l.license_key)]_vars

(***************************************************************************)
(* Claims about what a command leaves alone                                *)
(***************************************************************************)
\* The rows of a table that belong to other licenses
RowsElsewhere(rows, licenseKey) == {r \in rows : r.license_key # licenseKey}

\* C38: authorize and deauthorize leave the licenses, the pause markers and
\* the staff rows as they are and change grant rows of the resolved license
\* only; addstaff and removestaff leave grants, licenses and pause markers
\* as they are; pauselicense and unpauselicense leave grants, staff rows and
\* the licenses with their owners as they are.
C38_CommandFrames ==
    [][/\ (ChatGrantCommand("add") \/ ChatGrantCommand("remove"))
          => /\ UNCHANGED <<licenses, paused_licenses, license_admins>>
             /\ RowsElsewhere(authorized_users', last'.license)
                   = RowsElsewhere(authorized_users, last'.license)
       /\ last'.op \in {"addstaff", "removestaff"}
          => UNCHANGED <<authorized_users, licenses, paused_licenses>>
       /\ last'.op \in {"pauselicense", "unpauselicense"}
          => UNCHANGED <<authorized_users, license_admins, licenses>>]_vars

C38_Witness ==
    /\ last.op = "remove" /\ last.via = "chat" /\ last.success
    /\ \E r \in RowsElsewhere(authorized_users, last.license) :
          r.username = last.username
    /\ license_admins # {}
    /\ paused_licenses # {}

(***************************************************************************)
(* Claims about who changes the staff of a license                         *)
(***************************************************************************)
\* C39: the staff rows change only in a successful addstaff or removestaff
\* whose actor owns the license at that moment, and then only the rows of
\* that license, or in a deletelicense, which removes the rows of the
\* deleted license only; addstaff and removestaff by an actor who owns no
\* license (the bot owner and admin staff included) fail and change nothing.
C39_StaffChangedByOwnerOnly ==
    [][/\ license_admins' # license_admins
          => /\ RowsElsewhere(license_admins', last'.license)
                   = RowsElsewhere(license_admins, last'.license)
             /\ \/ /\ last'.op \in {"addstaff", "removestaff"}
                   /\ last'.success
                   /\ LicenseRow(last'.license, last'.actor) \in licenses
                \/ /\ last'.op = "deletelicense"
                   /\ RowsOf(license_admins', last'.license) = {}
       /\ (/\ last'.op \in {"addstaff", "removestaff"}
           /\ GetUserLicense(licenses, last'.actor) = {NoKey})
          => (~last'.success /\ RegistryUnchanged)]_vars

C39_Witness ==
    /\ last.op = "addstaff"
    /\ ~last.success
    /\ GetUserLicense(licenses, last.actor) = {NoKey}
    /\ \E a \in license_admins : a.user_id = last.actor /\ a.role_type = ROLE_ADMIN

(***************************************************************************)
(* Claims about references to licenses                                     *)
(***************************************************************************)
\* Every row of the table has the key of a license
RefersToLicense(rows) == \A r \in rows : LicenseExists(licenses, r.license_key)

\* C40: at all times every grant row, staff row and pause marker has the
\* key of an existing license (so none is left after its license is
\* deleted); an authorize with a license key option, or an admin add, that
\* names a key of no license fails and changes no table.
C40_RowsReferToLicenses ==
    /\ [](/\ RefersToLicense(authorized_users)
          /\ RefersToLicense(license_admins)
          /\ RefersToLicense(paused_licenses))
    /\ [][\A k \in LifeKeys, n \in LifeUsernames :
             ~LicenseExists(licenses, k)
             => /\ \A a \in Members :
                      Authorize(a, k, n, NULL) => (~last'.success /\ RegistryUnchanged)
                /\ \A v \in VehicleOptions :
                      AdminAddUserLicense(ADMIN_KEY, k, n, v)
                         => (~last'.success /\ RegistryUnchanged)]_vars

C40_Witness ==
    /\ last.op = "add"
    /\ last.via = "http"
    /\ last.license = K1
    /\ ~last.success
    /\ licenses = {}

=============================================================================
